---- MODULE Spec2Model ----
(***************************************************************************)
(* A model of the PC build engine of bot/service.py (PcAssemblerService):  *)
(* catalog loading and caching, the candidate filter, the utility scorer,  *)
(* the multiple-choice knapsack set up for the external ILP backend, and   *)
(* the assembly of the result.                                             *)
(*                                                                         *)
(* Numbers.  The code computes in binary floating point; the model         *)
(* computes the same expressions exactly, in fixed point:                  *)
(*   - prices, budgets, total_price: whole dollars;                        *)
(*   - the weights of GOAL_ALLOCATIONS and BUDGET_ALLOCATIONS: hundredths; *)
(*   - category_budget: cents (weight in hundredths x budget);             *)
(*   - base utility: hundredths;  price_factor: tenths;                    *)
(*   - utility, total_utility: units of 10^-7                              *)
(*     (base in hundredths x weight^2 in 10^-4 x price_factor in tenths);  *)
(*   - the bounds and coefficients of the spend constraints: tenths of a   *)
(*     dollar, so that budget x 0.8 is exact.                              *)
(* A cpu's boost_clock / core_clock is held in tenths of a GHz.  Text      *)
(* attributes are sequences of one-character strings, so that Python's     *)
(* substring test `a in b` and str.lower() are modelled on characters.     *)
(* A dict is a function on its set of keys; a key that is absent (or JSON  *)
(* null, which dict.get(...) is None treats alike) is absent from DOMAIN.  *)
(* Every dict of categories the code builds is filled in the order of      *)
(* category_files, so its iteration order is CategoryFiles restricted to   *)
(* its keys.                                                               *)
(***************************************************************************)
EXTENDS Integers, Sequences, FiniteSets, TLC

(***************************************************************************)
(* Configuration tables                                                    *)
(***************************************************************************)

\* category_files: the categories in loading order.
CategoryFiles ==
    <<"cpu", "memory", "motherboard", "power_supply", "case", "video_card", "storage">>

Categories == {CategoryFiles[i] : i \in 1..Len(CategoryFiles)}

\* Goal-specific importance coefficients, in hundredths.
GOAL_ALLOCATIONS ==
    [games       |-> [cpu |-> 20, video_card |-> 35, memory |-> 10, storage |-> 10,
                      motherboard |-> 10, power_supply |-> 8, case |-> 7],
     office      |-> [cpu |-> 25, video_card |-> 10, memory |-> 15, storage |-> 20,
                      motherboard |-> 12, power_supply |-> 8, case |-> 10],
     graphics    |-> [cpu |-> 25, video_card |-> 30, memory |-> 15, storage |-> 12,
                      motherboard |-> 8, power_supply |-> 5, case |-> 5],
     video       |-> [cpu |-> 30, video_card |-> 25, memory |-> 15, storage |-> 15,
                      motherboard |-> 5, power_supply |-> 5, case |-> 5],
     programming |-> [cpu |-> 30, video_card |-> 10, memory |-> 20, storage |-> 15,
                      motherboard |-> 10, power_supply |-> 8, case |-> 7],
     universal   |-> [cpu |-> 25, video_card |-> 20, memory |-> 15, storage |-> 15,
                      motherboard |-> 10, power_supply |-> 8, case |-> 7]]

\* Recommended share of the budget per category, in hundredths.
BUDGET_ALLOCATIONS ==
    [games       |-> [cpu |-> 20, video_card |-> 40, memory |-> 10, storage |-> 10,
                      motherboard |-> 10, power_supply |-> 7, case |-> 3],
     office      |-> [cpu |-> 30, video_card |-> 10, memory |-> 20, storage |-> 20,
                      motherboard |-> 10, power_supply |-> 5, case |-> 5],
     graphics    |-> [cpu |-> 25, video_card |-> 35, memory |-> 15, storage |-> 10,
                      motherboard |-> 5, power_supply |-> 5, case |-> 5],
     video       |-> [cpu |-> 35, video_card |-> 25, memory |-> 15, storage |-> 10,
                      motherboard |-> 5, power_supply |-> 5, case |-> 5],
     programming |-> [cpu |-> 30, video_card |-> 15, memory |-> 25, storage |-> 15,
                      motherboard |-> 5, power_supply |-> 5, case |-> 5],
     universal   |-> [cpu |-> 25, video_card |-> 25, memory |-> 15, storage |-> 15,
                      motherboard |-> 10, power_supply |-> 5, case |-> 5]]

\* Labels of the categories and of the goals (transliterated to ASCII).
CATEGORY_TRANSLATIONS ==
    [cpu |-> "Protsessor", memory |-> "Operativnaya pamyat",
     motherboard |-> "Materinskaya plata", power_supply |-> "Blok pitaniya",
     case |-> "Korpus", video_card |-> "Videokarta", storage |-> "Nakopitel"]

GOAL_TRANSLATIONS ==
    [games |-> "Igrovoy", office |-> "Ofisnyy", graphics |-> "Dlya grafiki",
     video |-> "Dlya videomontazha", programming |-> "Dlya programmirovaniya",
     universal |-> "Universalnyy"]

\* dict.get(key, default)
DictGet(d, key, default) == IF key \in DOMAIN d THEN d[key] ELSE default

\* Optional[float]: None is the empty sequence, a value v is <<v>>.
None == <<>>

Some(v) == <<v>>

(***************************************************************************)
(* Text                                                                    *)
(***************************************************************************)

\* str.lower() on the letters the catalog uses.
LowerChar(ch) ==
    CASE ch = "A" -> "a" [] ch = "B" -> "b" [] ch = "D" -> "d" [] ch = "E" -> "e"
      [] ch = "F" -> "f" [] ch = "G" -> "g" [] ch = "H" -> "h" [] ch = "I" -> "i"
      [] ch = "M" -> "m" [] ch = "N" -> "n" [] ch = "P" -> "p" [] ch = "S" -> "s"
      [] ch = "T" -> "t" [] ch = "V" -> "v" [] ch = "X" -> "x"
      [] OTHER -> ch

Lower(s) == [i \in 1..Len(s) |-> LowerChar(s[i])]

\* Python's `needle in hay` on strings: needle occurs as a contiguous run.
StrIn(needle, hay) ==
    \E k \in 0..(Len(hay) - Len(needle)) :
        \A i \in 1..Len(needle) : hay[k + i] = needle[i]

(***************************************************************************)
(* Utility scorer                                                          *)
(***************************************************************************)

\* The string literals _calculate_base_utility looks for.
ATX == <<"A", "T", "X">>

MicroATX == <<"M", "i", "c", "r", "o", " ", "A", "T", "X">>

MiniITX == <<"M", "i", "n", "i", " ", "I", "T", "X">>

FullTower == <<"F", "u", "l", "l", " ", "T", "o", "w", "e", "r">>

MidTower == <<"M", "i", "d", " ", "T", "o", "w", "e", "r">>

MiniTower == <<"M", "i", "n", "i", " ", "T", "o", "w", "e", "r">>

titanium == <<"t", "i", "t", "a", "n", "i", "u", "m">>

platinum == <<"p", "l", "a", "t", "i", "n", "u", "m">>

gold == <<"g", "o", "l", "d">>

silver == <<"s", "i", "l", "v", "e", "r">>

bronze == <<"b", "r", "o", "n", "z", "e">>

ssd == <<"s", "s", "d">>

nvme == <<"n", "v", "m", "e">>

\* base_utility = 50
base_utility == 50

\* form_factor_score of a motherboard: the first branch that matches.
form_factor_score(form_factor) ==
    IF StrIn(ATX, form_factor) THEN 20
    ELSE IF StrIn(MicroATX, form_factor) THEN 15
    ELSE IF StrIn(MiniITX, form_factor) THEN 10
    ELSE 0

\* efficiency_score of a power supply, on the lower-cased efficiency.
efficiency_score(efficiency) ==
    IF StrIn(titanium, efficiency) THEN 30
    ELSE IF StrIn(platinum, efficiency) THEN 25
    ELSE IF StrIn(gold, efficiency) THEN 20
    ELSE IF StrIn(silver, efficiency) THEN 15
    ELSE IF StrIn(bronze, efficiency) THEN 10
    ELSE 0

\* type_score of a case.
case_type_score(case_type) ==
    IF StrIn(FullTower, case_type) THEN 20
    ELSE IF StrIn(MidTower, case_type) THEN 15
    ELSE IF StrIn(MiniTower, case_type) THEN 10
    ELSE 0

\* type_score of a storage device, on the lower-cased type.
storage_type_score(storage_type) ==
    IF StrIn(ssd, storage_type) THEN 20
    ELSE IF StrIn(nvme, storage_type) THEN 30
    ELSE 0

\* The memory branch: total size from modules, speed from speed[1].
memory_base_utility(component) ==
    IF "modules" \in DOMAIN component /\ "speed" \in DOMAIN component
    THEN LET total_size == IF Len(component.modules) >= 2
                           THEN component.modules[1] * component.modules[2]
                           ELSE 8
             speed == IF Len(component.speed) >= 2 THEN component.speed[2] ELSE 3000
         IN  base_utility * 100 + total_size * 200 + speed
    ELSE base_utility * 100

\* _calculate_base_utility, in hundredths; None when the price is missing or
\* not positive.
_calculate_base_utility(component, category) ==
    IF "price" \notin DOMAIN component THEN None
    ELSE IF component.price <= 0 THEN None
    ELSE IF category = "cpu" THEN
        LET core_count  == DictGet(component, "core_count", 4)
            boost_clock == DictGet(component, "boost_clock",
                                   DictGet(component, "core_clock", 30))
        IN  Some(base_utility * 100 + core_count * boost_clock * 20)
    ELSE IF category = "video_card" THEN
        LET memory      == DictGet(component, "memory", 4)
            boost_clock == DictGet(component, "boost_clock",
                                   DictGet(component, "core_clock", 1000))
        IN  Some(base_utility * 100 + memory * 500 + boost_clock)
    ELSE IF category = "memory" THEN Some(memory_base_utility(component))
    ELSE IF category = "motherboard" THEN
        Some((base_utility + form_factor_score(DictGet(component, "form_factor", <<>>))) * 100)
    ELSE IF category = "power_supply" THEN
        LET wattage    == DictGet(component, "wattage", 500)
            efficiency == Lower(DictGet(component, "efficiency", <<>>))
        IN  Some(base_utility * 100 + wattage * 5 + efficiency_score(efficiency) * 100)
    ELSE IF category = "case" THEN
        Some((base_utility + case_type_score(DictGet(component, "type", <<>>))) * 100)
    ELSE IF category = "storage" THEN
        LET capacity     == DictGet(component, "capacity", 500)
            storage_type == Lower(DictGet(component, "type", <<>>))
        IN  Some(base_utility * 100 + capacity + storage_type_score(storage_type) * 100)
    ELSE Some(base_utility * 100)

\* price > category_budget * (num / den), category_budget in cents.
PriceAbove(price, category_budget, num, den) == price * 100 * den > category_budget * num

\* price >= category_budget * (num / den)
PriceAtLeast(price, category_budget, num, den) == price * 100 * den >= category_budget * num

\* price_factor, in tenths, by budget level.
price_factor(price, category_budget, budget) ==
    IF budget >= 2000 THEN
        IF PriceAbove(price, category_budget, 2, 1) THEN 6
        ELSE IF PriceAbove(price, category_budget, 3, 2) THEN 8
        ELSE IF PriceAbove(price, category_budget, 1, 1) THEN 9
        ELSE IF PriceAtLeast(price, category_budget, 7, 10) THEN 12
        ELSE IF PriceAtLeast(price, category_budget, 4, 10) THEN 10
        ELSE 7
    ELSE IF budget >= 1000 THEN
        IF PriceAbove(price, category_budget, 3, 2) THEN 6
        ELSE IF PriceAbove(price, category_budget, 6, 5) THEN 8
        ELSE IF PriceAbove(price, category_budget, 1, 1) THEN 9
        ELSE IF PriceAtLeast(price, category_budget, 6, 10) THEN 11
        ELSE IF PriceAtLeast(price, category_budget, 3, 10) THEN 10
        ELSE 8
    ELSE
        IF PriceAbove(price, category_budget, 6, 5) THEN 5
        ELSE IF PriceAbove(price, category_budget, 1, 1) THEN 7
        ELSE IF PriceAtLeast(price, category_budget, 8, 10) THEN 10
        ELSE IF PriceAtLeast(price, category_budget, 5, 10) THEN 9
        ELSE 8

\* min(a, b)
Min(a, b) == IF a <= b THEN a ELSE b

\* max(a, b)
Max(a, b) == IF a >= b THEN a ELSE b

\* price_bonus = min(price / 100, category_budget / 50) for budget >= 1500,
\* in units of 10^-7.
price_bonus(price, category_budget, budget) ==
    IF budget >= 1500 THEN Min(price * 100000, category_budget * 2000) ELSE 0

\* Mutant: the weights of an unknown goal taken from the games profile.
GoalWeights_FallbackGames(goal) ==
    DictGet(GOAL_ALLOCATIONS, goal, GOAL_ALLOCATIONS["games"])

\* The goal's weights, with the universal profile for an unknown goal.
GoalWeights(goal) == DictGet(GOAL_ALLOCATIONS, goal, GOAL_ALLOCATIONS["universal"])

\* The goal's budget shares, with the universal profile for an unknown goal.
BudgetAllocation(goal) == DictGet(BUDGET_ALLOCATIONS, goal, BUDGET_ALLOCATIONS["universal"])

\* category_budget = budget_allocation.get(category, 0.1) * budget, in cents.
CategoryBudget(category, goal, budget) == DictGet(BudgetAllocation(goal), category, 10) * budget

\* _calculate_utility, in units of 10^-7; None when the base utility is None.
_calculate_utility(component, category, goal, budget) ==
    LET base == _calculate_base_utility(component, category)
    IN  IF base = None THEN None
        ELSE LET price           == component.price
                 category_weight == DictGet(GoalWeights(goal), category, 10)
                 category_budget == CategoryBudget(category, goal, budget)
             IN  Some(base[1] * category_weight * category_weight
                          * price_factor(price, category_budget, budget)
                      + price_bonus(price, category_budget, budget))

(***************************************************************************)
(* Candidate filter                                                        *)
(***************************************************************************)

\* filtered_items[:100]: the size of the high-end set.
HighEndCount == 100

\* len(remaining_items) // 900: the size aimed at for the balanced set.
BalancedCount == 900

\* The cap on a category's filtered list.
MaxFiltered == 1000

\* list.sort(key=price) and list.sort(key=price, reverse=True): both stable,
\* parts of equal price keep their order.
SortByPrice(items, reverse) ==
    LET indexed == [i \in 1..Len(items) |-> [at |-> i, item |-> items[i]]]
        Before(a, b) ==
            IF a.item.price = b.item.price THEN a.at < b.at
            ELSE IF reverse THEN a.item.price > b.item.price
                 ELSE a.item.price < b.item.price
        sorted == SortSeq(indexed, Before)
    IN  [k \in 1..Len(items) |-> sorted[k].item]

\* s[:n]
Take(s, n) == SubSeq(s, 1, Min(n, Len(s)))

\* s[n:]
Drop(s, n) == SubSeq(s, Min(n, Len(s)) + 1, Len(s))

\* s[::step]
EveryNth(s, step) == [k \in 1..((Len(s) + step - 1) \div step) |-> s[(k - 1) * step + 1]]

\* Mutant: the most generous ceiling for every budget.
max_price_AlwaysTriple(category_budget, budget) == category_budget * 6

\* max_price = category_budget * 3 | 2.5 | 2, in half cents.
max_price(category_budget, budget) ==
    IF budget >= 2000 THEN category_budget * 6
    ELSE IF budget >= 1000 THEN category_budget * 5
    ELSE category_budget * 4

\* Mutant: the price range without the test for a positive price.
InPriceRange_NoPositiveCheck(items, category_budget, budget) ==
    SelectSeq(items, LAMBDA item :
        /\ "price" \in DOMAIN item
        /\ item.price * 200 <= max_price(category_budget, budget))

\* The parts kept by the price range: a price that is present, positive and
\* at most max_price.
InPriceRange(items, category_budget, budget) ==
    SelectSeq(items, LAMBDA item :
        /\ "price" \in DOMAIN item
        /\ item.price > 0
        /\ item.price * 200 <= max_price(category_budget, budget))

\* For budget >= 1500: the 100 most expensive, then every step-th of the rest
\* in ascending price.
HighEndAndBalanced(filtered_items) ==
    LET sorted          == SortByPrice(filtered_items, TRUE)
        high_end_items  == Take(sorted, HighEndCount)
        remaining_items == SortByPrice(Drop(sorted, HighEndCount), FALSE)
        step            == Max(1, Len(remaining_items) \div BalancedCount)
    IN  IF remaining_items # <<>>
        THEN high_end_items \o EveryNth(remaining_items, step)
        ELSE high_end_items

\* Mutant: no cap on the list.
CapFiltered_NoCap(filtered_items) == filtered_items

\* Mutant: the cut keeps the 1000 dearest parts.
CapFiltered_KeepDearest(filtered_items) ==
    IF Len(filtered_items) > MaxFiltered
    THEN Take(SortByPrice(filtered_items, TRUE), MaxFiltered)
    ELSE filtered_items

\* The cap: above 1000 items, sort ascending by price and keep the first 1000.
CapFiltered(filtered_items) ==
    IF Len(filtered_items) > MaxFiltered
    THEN Take(SortByPrice(filtered_items, FALSE), MaxFiltered)
    ELSE filtered_items

\* One category's pass through the loop body of _filter_components_by_goal.
FilterCategory(items, category, goal, budget) ==
    LET in_range == InPriceRange(items, CategoryBudget(category, goal, budget), budget)
    IN  CapFiltered(IF budget >= 1500 /\ in_range # <<>>
                    THEN HighEndAndBalanced(in_range)
                    ELSE in_range)

\* _filter_components_by_goal: a category is kept when its list is not empty.
_filter_components_by_goal(components, goal, budget) ==
    LET filtered == [c \in DOMAIN components |->
                        FilterCategory(components[c], c, goal, budget)]
        kept     == {c \in DOMAIN components : filtered[c] # <<>>}
    IN  [c \in kept |-> filtered[c]]

(***************************************************************************)
(* Scoring of the filtered candidates (generate_pc_build)                  *)
(***************************************************************************)

\* Whether the scoring loop keeps the item: a positive price and a utility
\* that is defined and positive.
IsValidItem(item, category, goal, budget) ==
    /\ "price" \in DOMAIN item
    /\ item.price > 0
    /\ _calculate_utility(item, category, goal, budget) # None
    /\ _calculate_utility(item, category, goal, budget)[1] > 0

\* item.copy() with item_with_utility['utility'] = utility
item_with_utility(item, category, goal, budget) ==
    ("utility" :> _calculate_utility(item, category, goal, budget)[1]) @@ item

\* valid_items of one category.
ValidItems(items, category, goal, budget) ==
    LET kept == SelectSeq(items, LAMBDA item : IsValidItem(item, category, goal, budget))
    IN  [i \in 1..Len(kept) |-> item_with_utility(kept[i], category, goal, budget)]

\* valid_components: only the categories that have valid items.
ValidComponents(filtered, goal, budget) ==
    LET kept == {c \in DOMAIN filtered : ValidItems(filtered[c], c, goal, budget) # <<>>}
    IN  [c \in kept |-> ValidItems(filtered[c], c, goal, budget)]

\* required_categories
required_categories == {"cpu", "memory", "motherboard", "power_supply", "case"}

\* missing_categories = required_categories - set(valid_components.keys())
missing_categories(valid) == required_categories \ DOMAIN valid

(***************************************************************************)
(* The ILP backend (pywraplp / SCIP), an external collaborator, by its     *)
(* contract: over 0/1 variables x[category][i] and rows                    *)
(* lb <= sum coef * x <= ub, it answers OPTIMAL with an assignment that    *)
(* maximizes the objective, or INFEASIBLE when no assignment satisfies     *)
(* every row.  Which of several optimal assignments it returns is not      *)
(* specified; it is the same one for the same problem (CHOOSE).            *)
(* A problem is [x, constraints, objective]: x[c] is the number of         *)
(* BoolVars of category c, a constraint is [lb, ub, coef] with coef[c][i]  *)
(* the coefficient set on x[c][i] (0 where none was set).                  *)
(***************************************************************************)

\* solver.infinity()
Infinity == 2000000000

\* The keys of a dict of categories, in iteration order.
KeysInOrder(d) == SelectSeq(CategoryFiles, LAMBDA c : c \in DOMAIN d)

RECURSIVE SumSet(_, _)
\* The sum of f[i] over i in S.
SumSet(f, S) ==
    IF S = {} THEN 0
    ELSE LET i == CHOOSE j \in S : TRUE IN f[i] + SumSet(f, S \ {i})

\* The largest member of a non-empty set of integers.
SetMax(S) == CHOOSE v \in S : \A w \in S : v >= w

\* A row's value is settled once every category it mentions is assigned.
RowDecided(row, assigned) == DOMAIN row.coef \subseteq assigned

RowHolds(row, sum) == row.lb <= sum /\ sum <= row.ub

\* A partial assignment p extended by selecting the set S of category c.
ExtendAssignment(problem, p, c, S) ==
    [sel  |-> (c :> S) @@ p.sel,
     sums |-> [j \in 1..Len(problem.constraints) |->
                  p.sums[j] + IF c \in DOMAIN problem.constraints[j].coef
                              THEN SumSet(problem.constraints[j].coef[c], S)
                              ELSE 0],
     obj  |-> p.obj + SumSet(problem.objective[c], S)]

RECURSIVE Assignments(_, _, _)
\* The assignments of the first k categories of `order` that break no row
\* already settled (exhaustive search, rows checked as soon as settled).
Assignments(problem, order, k) ==
    IF k = 0
    THEN {[sel |-> <<>>, sums |-> [j \in 1..Len(problem.constraints) |-> 0], obj |-> 0]}
    ELSE LET c        == order[k]
             assigned == {order[i] : i \in 1..k}
             extended == {ExtendAssignment(problem, p, c, S) :
                             p \in Assignments(problem, order, k - 1),
                             S \in SUBSET (1..problem.x[c])}
         IN  {q \in extended :
                 \A j \in 1..Len(problem.constraints) :
                     RowDecided(problem.constraints[j], assigned)
                         => RowHolds(problem.constraints[j], q.sums[j])}

\* solver.Solve(): the status and, when OPTIMAL, the selected indices per
\* category (solution_value() > 0.5).  A backend fault answers ABNORMAL.
Solve(problem, backend) ==
    LET order    == KeysInOrder(problem.x)
        feasible == Assignments(problem, order, Len(order))
    IN  IF backend = "abnormal" THEN [status |-> "ABNORMAL"]
        ELSE IF feasible = {} THEN [status |-> "INFEASIBLE"]
        ELSE LET best == SetMax({q.obj : q \in feasible})
             IN  [status |-> "OPTIMAL",
                  selected |-> (CHOOSE q \in feasible : q.obj = best).sel]

(***************************************************************************)
(* Allocation engine: _solve_mckp and _solve_mckp_with_min_spend           *)
(***************************************************************************)

\* x[category] = [BoolVar ...]: one variable per valid item.
BoolVars(valid_components) == [c \in DOMAIN valid_components |-> Len(valid_components[c])]

\* The coefficients price (in tenths of a dollar) on every variable.
PriceCoefficients(valid_components) ==
    [c \in DOMAIN valid_components |->
        [i \in 1..Len(valid_components[c]) |-> valid_components[c][i].price * 10]]

\* Mutant: the budget row without its ceiling.
budget_constraint_NoCeiling(valid_components, budget) ==
    [lb |-> 0, ub |-> Infinity, coef |-> PriceCoefficients(valid_components)]

\* budget_constraint = solver.Constraint(0, budget)
budget_constraint(valid_components, budget) ==
    [lb |-> 0, ub |-> budget * 10, coef |-> PriceCoefficients(valid_components)]

\* min_spend = budget * (0.8 if budget >= 1500 else 0.0), in tenths of a dollar.
min_spend(budget) == IF budget >= 1500 THEN budget * 8 ELSE 0

\* Mutant: the min-spend row without its floor.
min_budget_constraint_NoFloor(valid_components, min_spend_tenths) ==
    [lb |-> 0, ub |-> Infinity, coef |-> PriceCoefficients(valid_components)]

\* min_budget_constraint = solver.Constraint(min_spend, solver.infinity())
min_budget_constraint(valid_components, min_spend_tenths) ==
    [lb |-> min_spend_tenths, ub |-> Infinity, coef |-> PriceCoefficients(valid_components)]

\* Mutant: at most one part per category instead of exactly one.
one_per_category_AtMostOne(valid_components, c) ==
    [lb |-> 0, ub |-> 1, coef |-> (c :> [i \in 1..Len(valid_components[c]) |-> 1])]

\* solver.Constraint(1, 1) over the variables of one category.
one_per_category(valid_components, c) ==
    [lb |-> 1, ub |-> 1, coef |-> (c :> [i \in 1..Len(valid_components[c]) |-> 1])]

\* Mutant: one-per-category rows for the required categories only.
CategoryConstraints_RequiredOnly(valid_components) ==
    LET order == SelectSeq(KeysInOrder(valid_components),
                           LAMBDA c : c \in required_categories)
    IN  [k \in 1..Len(order) |-> one_per_category(valid_components, order[k])]

\* The one-per-category rows, one for every category with valid items.
CategoryConstraints(valid_components) ==
    LET order == KeysInOrder(valid_components)
    IN  [k \in 1..Len(order) |-> one_per_category(valid_components, order[k])]

\* Mutant: an objective that maximizes the money spent.
objective_ByPrice(valid_components) ==
    [c \in DOMAIN valid_components |->
        [i \in 1..Len(valid_components[c]) |-> valid_components[c][i].price]]

\* objective: maximize the sum of utility over the selected variables.
objective(valid_components) ==
    [c \in DOMAIN valid_components |->
        [i \in 1..Len(valid_components[c]) |-> valid_components[c][i].utility]]

\* Mutant: the first solve under the budget ceiling alone.
MckpProblem_NoMinSpendRow(valid_components, budget) ==
    [x |-> BoolVars(valid_components),
     constraints |->
        <<budget_constraint(valid_components, budget)>>
        \o CategoryConstraints(valid_components),
     objective |-> objective(valid_components)]

\* The problem _solve_mckp builds: the budget row, the min-spend row when
\* min_spend > 0, the one-per-category rows, the objective.
MckpProblem(valid_components, budget) ==
    [x |-> BoolVars(valid_components),
     constraints |->
        <<budget_constraint(valid_components, budget)>>
        \o (IF min_spend(budget) > 0
            THEN <<min_budget_constraint(valid_components, min_spend(budget))>>
            ELSE <<>>)
        \o CategoryConstraints(valid_components),
     objective |-> objective(valid_components)]

\* The problem _solve_mckp_with_min_spend builds: both spend rows always.
MinSpendProblem(valid_components, budget, min_spend_tenths) ==
    [x |-> BoolVars(valid_components),
     constraints |->
        <<budget_constraint(valid_components, budget),
          min_budget_constraint(valid_components, min_spend_tenths)>>
        \o CategoryConstraints(valid_components),
     objective |-> objective(valid_components)]

\* sorted(category names): the display order of components_with_details.
SortedCategories ==
    <<"case", "cpu", "memory", "motherboard", "power_supply", "storage", "video_card">>

\* The (category, index) pairs with solution_value() > 0.5, in loop order.
RECURSIVE SelectedPairs(_, _, _)
SelectedPairs(order, selected, k) ==
    IF k = 0 THEN <<>>
    ELSE SelectedPairs(order, selected, k - 1)
         \o LET c == order[k]
                n == IF selected[c] = {} THEN 0 ELSE SetMax(selected[c])
            IN  SelectSeq([i \in 1..n |-> <<c, i>>], LAMBDA pr : pr[2] \in selected[c])

\* One entry of components_with_details; budget_percentage is the fraction
\* price * 100 / budget, kept as <<numerator, denominator>>.
ComponentDetails(valid_components, c, i, budget, goal) ==
    [category               |-> c,
     category_ru            |-> DictGet(CATEGORY_TRANSLATIONS, c, c),
     name                   |-> valid_components[c][i].name,
     price                  |-> valid_components[c][i].price,
     utility                |-> valid_components[c][i].utility,
     budget_percentage      |-> <<valid_components[c][i].price * 100, budget>>,
     recommended_percentage |-> DictGet(BudgetAllocation(goal), c, 10),
     details                |-> valid_components[c][i]]

\* The OPTIMAL result built from the backend's selection: the same text in
\* _solve_mckp and in _solve_mckp_with_min_spend.
OptimalResult(valid_components, selected, budget, goal) ==
    LET pairs == SelectedPairs(KeysInOrder(valid_components), selected,
                               Len(KeysInOrder(valid_components)))
        chosen == {c \in DOMAIN valid_components : selected[c] # {}}
        total_price == SumSet([k \in 1..Len(pairs) |->
                                  valid_components[pairs[k][1]][pairs[k][2]].price],
                              1..Len(pairs))
        total_utility == SumSet([k \in 1..Len(pairs) |->
                                    valid_components[pairs[k][1]][pairs[k][2]].utility],
                                1..Len(pairs))
        sorted_pairs == [k \in 1..Len(pairs) |->
                            pairs[CHOOSE i \in 1..Len(pairs) :
                                Cardinality({j \in 1..Len(pairs) :
                                    \/ \E a, b \in 1..Len(SortedCategories) :
                                          /\ SortedCategories[a] = pairs[j][1]
                                          /\ SortedCategories[b] = pairs[i][1]
                                          /\ a < b
                                    \/ pairs[j][1] = pairs[i][1] /\ j < i}) + 1 = k]]
    IN  [status                  |-> "OPTIMAL",
         goal                    |-> goal,
         goal_ru                 |-> DictGet(GOAL_TRANSLATIONS, goal, goal),
         selected_components     |-> [c \in chosen |-> valid_components[c][SetMax(selected[c])]],
         components_with_details |-> [k \in 1..Len(pairs) |->
                                         ComponentDetails(valid_components, sorted_pairs[k][1],
                                                          sorted_pairs[k][2], budget, goal)],
         total_price             |-> total_price,
         total_utility           |-> total_utility,
         remaining_budget        |-> budget - total_price,
         budget_allocation       |-> BudgetAllocation(goal)]

\* _solve_mckp_with_min_spend: [result, solves], solves being the lower
\* spend bound of each solver.Solve() made.
_solve_mckp_with_min_spend(valid_components, budget, goal, min_spend_tenths, backend) ==
    IF backend = "unavailable"
    THEN [result |-> [status |-> "ERROR", message |-> "Failed to create solver"],
          solves |-> <<>>]
    ELSE LET answer == Solve(MinSpendProblem(valid_components, budget, min_spend_tenths),
                             backend)
         IN  [result |->
                 IF answer.status = "OPTIMAL"
                 THEN OptimalResult(valid_components, answer.selected, budget, goal)
                 ELSE IF answer.status = "INFEASIBLE" THEN [status |-> "INFEASIBLE"]
                 ELSE [status |-> "ERROR", message |-> "Solver error with status"],
              solves |-> <<min_spend_tenths>>]

\* Mutant: the backend's status handed to the caller as it comes.
_solve_mckp_RawStatus(valid_components, budget, goal, backend) ==
    [result |-> [status |-> Solve(MckpProblem(valid_components, budget), backend).status],
     solves |-> <<min_spend(budget)>>]

\* Mutant: after an OPTIMAL first solve the min-spend solve is repeated until
\* two runs agree.
_solve_mckp_ToConvergence(valid_components, budget, goal, backend) ==
    LET first == _solve_mckp_with_min_spend(valid_components, budget, goal,
                                            min_spend(budget), backend)
        again == _solve_mckp_with_min_spend(valid_components, budget, goal, budget * 8,
                                            backend)
    IN  IF first.result.status = "OPTIMAL" /\ budget >= 1500
        THEN [result |-> again.result, solves |-> first.solves \o again.solves \o again.solves]
        ELSE first

\* _solve_mckp: [result, solves].
_solve_mckp(valid_components, budget, goal, backend) ==
    IF backend = "unavailable"
    THEN [result |-> [status |-> "ERROR", message |-> "Failed to create solver"],
          solves |-> <<>>]
    ELSE LET answer == Solve(MckpProblem(valid_components, budget), backend)
             first  == OptimalResult(valid_components, answer.selected, budget, goal)
             second_attempt ==
                 _solve_mckp_with_min_spend(valid_components, budget, goal, budget * 8,
                                            backend)
         IN  IF answer.status = "OPTIMAL"
             THEN IF budget >= 1500 /\ first.total_price * 10 < budget * 8
                  THEN [result |-> IF second_attempt.result.status = "OPTIMAL"
                                   THEN second_attempt.result
                                   ELSE first,
                        solves |-> <<min_spend(budget)>> \o second_attempt.solves]
                  ELSE [result |-> first, solves |-> <<min_spend(budget)>>]
             ELSE IF answer.status = "INFEASIBLE"
             THEN [result |-> [status |-> "INFEASIBLE",
                               message |-> "No feasible solution found with this budget"],
                   solves |-> <<min_spend(budget)>>]
             ELSE [result |-> [status |-> "ERROR", message |-> "Solver error with status"],
                   solves |-> <<min_spend(budget)>>]

(***************************************************************************)
(* The inputs drawn: data directories, budgets, goals, backend states      *)
(***************************************************************************)

\* How many parts of its pool a category file holds; the cpu and video_card
\* files hold one more.
MaxParts == 2

\* Text of the catalog's attributes.
Bronze80 == <<"8", "0", "+", " ", "B", "r", "o", "n", "z", "e">>

Gold80 == <<"8", "0", "+", " ", "G", "o", "l", "d">>

Rpm7200 == <<"7", "2", "0", "0">>

SSD == <<"S", "S", "D">>

NVMeSSD == <<"N", "V", "M", "e", " ", "S", "S", "D">>

\* The parts a category file is filled from, in file order.
PartPool ==
    [cpu |->
        <<[name |-> "cpu-4c", price |-> 100, core_count |-> 4, boost_clock |-> 35],
          [name |-> "cpu-6c", price |-> 250, core_count |-> 6, boost_clock |-> 45],
          [name |-> "cpu-12c", price |-> 450, core_count |-> 12, boost_clock |-> 50],
          [name |-> "cpu-8c", price |-> 180, core_count |-> 8, core_clock |-> 36]>>,
     memory |->
        <<[name |-> "ram-8", price |-> 40, modules |-> <<2, 4>>, speed |-> <<4, 2666>>],
          [name |-> "ram-32", price |-> 120, modules |-> <<2, 16>>, speed |-> <<4, 3600>>],
          [name |-> "ram-16", modules |-> <<2, 8>>, speed |-> <<4, 3200>>]>>,
     motherboard |->
        <<[name |-> "mb-matx", price |-> 80, form_factor |-> MicroATX],
          [name |-> "mb-atx", price |-> 180, form_factor |-> ATX],
          [name |-> "mb-itx", price |-> 150, form_factor |-> MiniITX]>>,
     power_supply |->
        <<[name |-> "psu-500", price |-> 50, wattage |-> 500, efficiency |-> Bronze80],
          [name |-> "psu-850", price |-> 130, wattage |-> 850, efficiency |-> Gold80],
          [name |-> "psu-400", price |-> 0, wattage |-> 400]>>,
     case |->
        <<[name |-> "case-mini", price |-> 40, type |-> MiniTower],
          [name |-> "case-mid", price |-> 100, type |-> MidTower],
          [name |-> "case-full", price |-> 160, type |-> FullTower]>>,
     video_card |->
        <<[name |-> "gpu-4g", price |-> 200, memory |-> 4, boost_clock |-> 1500],
          [name |-> "gpu-8g", price |-> 500, memory |-> 8, boost_clock |-> 1800],
          [name |-> "gpu-16g", price |-> 900, memory |-> 16, boost_clock |-> 2500],
          [name |-> "gpu-6g", price |-> 350, memory |-> 6]>>,
     storage |->
        <<[name |-> "hdd-1t", price |-> 50, capacity |-> 1000, type |-> Rpm7200],
          [name |-> "ssd-1t", price |-> 110, capacity |-> 1000, type |-> SSD],
          [name |-> "nvme-2t", price |-> 200, capacity |-> 2000, type |-> NVMeSSD]>>]

\* Very cheap parts, for budgets far below a real build, next to parts with
\* no price, a price of 0 and a negative price.
ToyPool ==
    [cpu          |-> <<[name |-> "toy-cpu", price |-> 25, core_count |-> 2, boost_clock |-> 20]>>,
     memory       |-> <<[name |-> "toy-ram-unpriced"],
                        [name |-> "toy-ram", price |-> 15]>>,
     motherboard  |-> <<[name |-> "toy-mb", price |-> 10]>>,
     power_supply |-> <<[name |-> "toy-psu-free", price |-> 0, wattage |-> 300],
                        [name |-> "toy-psu", price |-> 5, wattage |-> 200]>>,
     case         |-> <<[name |-> "toy-case", price |-> 5],
                        [name |-> "toy-case-refund", price |-> 0 - 5]>>]

\* A category file that json.load reads.
FileOf(parts) == [state |-> "ok", parts |-> parts]

MissingFile == [state |-> "missing"]

UnreadableFile == [state |-> "unreadable"]

\* The data directories drawn: the full catalog, the catalog without the
\* files of the optional categories, the catalog whose case file cannot be
\* parsed, the toy catalog (with a video-card file holding an empty list and a
\* storage file that cannot be parsed), and a directory with no category file
\* at all.
PartsInFile(c) ==
    Take(PartPool[c], IF c \in {"cpu", "video_card"} THEN MaxParts + 1 ELSE MaxParts)

FullDir == [c \in Categories |-> FileOf(PartsInFile(c))]

MandatoryOnlyDir ==
    [c \in Categories |->
        IF c \in {"video_card", "storage"} THEN MissingFile ELSE FullDir[c]]

BrokenCaseDir == [c \in Categories |-> IF c = "case" THEN UnreadableFile ELSE FullDir[c]]

\* Two video cards of which the dear one is the poor one.
OverpricedCards ==
    <<[name |-> "gpu-value", price |-> 200, memory |-> 8, boost_clock |-> 2500],
      [name |-> "gpu-overpriced", price |-> 1000, memory |-> 2, boost_clock |-> 1000]>>

\* The mandatory categories with those two video cards and no storage file.
OverpricedDir ==
    [c \in Categories |->
        IF c = "video_card" THEN FileOf(OverpricedCards)
        ELSE IF c = "storage" THEN MissingFile
        ELSE FullDir[c]]

ToyDir ==
    [c \in Categories |->
        IF c \in DOMAIN ToyPool THEN FileOf(ToyPool[c])
        ELSE IF c = "video_card" THEN FileOf(<<>>)
        ELSE UnreadableFile]

EmptyDir == [c \in Categories |-> MissingFile]

DataDirs == {FullDir, MandatoryOnlyDir, BrokenCaseDir, OverpricedDir, ToyDir, EmptyDir}

Budgets == {50, 500, 1000, 1500, 2000}

Goals == {"games", "universal", "unknown_value"}

\* The state of the ILP backend in this process: SCIP present and answering,
\* CreateSolver returning None, or Solve ending with another status.
Backends == {"ok", "unavailable", "abnormal"}

(***************************************************************************)
(* The market client: YandexMarketApiClient.generate_pc_build              *)
(***************************************************************************)

\* ---------------------------------------------------------------------------
\* Floating point, as far as generate_pc_build of the market client uses it.
\* A whole number too wide for one integer is the sequence of its digits in
\* base 1024, lowest first; a double is a mantissa of at most 53 bits and a
\* binary exponent: m / 2^e.
\* ---------------------------------------------------------------------------

\* The width of a double's mantissa.
MantissaBits == 53

\* The bits of one digit, and the base.
DigitBits == 10
Base == 2^DigitBits

\* 2^e.
Pow2(e) ==
    [i \in 1..(e \div DigitBits + 1) |->
        IF i = e \div DigitBits + 1 THEN 2^(e % DigitBits) ELSE 0]

\* x * n + carry, for a small n.
RECURSIVE MulSmall(_, _, _)
MulSmall(x, n, carry) ==
    IF x = <<>>
    THEN IF carry = 0 THEN <<>> ELSE <<carry % Base>> \o MulSmall(<<>>, n, carry \div Base)
    ELSE LET v == Head(x) * n + carry
         IN  <<v % Base>> \o MulSmall(Tail(x), n, v \div Base)

\* The quotient and the remainder of x by a small n, the high digits first.
RECURSIVE DivSmall(_, _)
DivSmall(x, n) ==
    IF x = <<>>
    THEN [q |-> <<>>, r |-> 0]
    ELSE LET high == DivSmall(Tail(x), n)
             v    == high.r * Base + Head(x)
         IN  [q |-> <<v \div n>> \o high.q, r |-> v % n]

\* The number of bits of x up to its highest 1.
BitLen(x) ==
    LET used == {i \in 1..Len(x) : x[i] # 0}
        top  == CHOOSE i \in used : \A j \in used : j <= i
    IN  IF used = {} THEN 0
        ELSE (top - 1) * DigitBits + (CHOOSE k \in 1..DigitBits : 2^(k - 1) <= x[top] /\ x[top] < 2^k)

\* The integer a short x stands for.
RECURSIVE ToInt(_)
ToInt(x) == IF x = <<>> THEN 0 ELSE Head(x) + Base * ToInt(Tail(x))

\* x cut by its s lowest bits, s >= 1: what is kept, whether the part cut is
\* half a unit of what is kept or more, and whether it is more than half.
Shifted(x, s) ==
    LET digits  == (s - 1) \div DigitBits
        bits    == s - digits * DigitBits
        divided == DivSmall(SubSeq(x, digits + 1, Len(x)), 2^bits)
        below   == \E i \in 1..Min(digits, Len(x)) : x[i] # 0
    IN  [kept |-> divided.q,
         half |-> divided.r >= 2^(bits - 1),
         more |-> divided.r > 2^(bits - 1) \/ (divided.r = 2^(bits - 1) /\ below)]

\* m / 2^e brought to the width of a double: round to nearest, a tie to the
\* even neighbour, as every double operation does.
Rounded(m, e) ==
    LET s   == BitLen(m) - MantissaBits
        cut == Shifted(m, s)
        odd == cut.kept[1] % 2 = 1
    IN  IF s <= 0 THEN [m |-> m, e |-> e]
        ELSE IF cut.half /\ (cut.more \/ odd) THEN [m |-> MulSmall(cut.kept, 1, 1), e |-> e - s]
        ELSE [m |-> cut.kept, e |-> e - s]

\* The exponent that gives percent / 100 a mantissa of 53 bits.
RECURSIVE PercentExponent(_, _)
PercentExponent(percent, e) ==
    IF BitLen(DivSmall(MulSmall(Pow2(e), percent, 0), 100).q) >= MantissaBits
    THEN e
    ELSE PercentExponent(percent, e + 1)

\* The double a literal such as 0.35 denotes: the one nearest to 35 / 100.
Literal(percent) ==
    LET e       == PercentExponent(percent, MantissaBits - 1)
        divided == DivSmall(MulSmall(Pow2(e), percent, 0), 100)
        up      == divided.r * 2 > 100 \/ (divided.r * 2 = 100 /\ divided.q[1] % 2 = 1)
    IN  Rounded(IF up THEN MulSmall(divided.q, 1, 1) ELSE divided.q, e)

\* budget * allocation[...]: an int times a double, rounded to a double.
Times(n, x) == Rounded(MulSmall(x.m, n, 0), x.e)

\* int(x): the double cut to its whole part.
int(x) == IF x.e <= 0 THEN ToInt(x.m) ELSE ToInt(Shifted(x.m, x.e).kept)

\* purpose_allocations, each share written as the hundredths of its literal.
purpose_allocations ==
    [games       |-> [cpu |-> 20, gpu |-> 35, ram |-> 10, storage |-> 10,
                      motherboard |-> 10, power_supply |-> 8, case |-> 7],
     office      |-> [cpu |-> 25, gpu |-> 10, ram |-> 15, storage |-> 20,
                      motherboard |-> 12, power_supply |-> 8, case |-> 10],
     graphics    |-> [cpu |-> 25, gpu |-> 30, ram |-> 15, storage |-> 12,
                      motherboard |-> 8, power_supply |-> 5, case |-> 5],
     video       |-> [cpu |-> 30, gpu |-> 25, ram |-> 15, storage |-> 15,
                      motherboard |-> 5, power_supply |-> 5, case |-> 5],
     programming |-> [cpu |-> 30, gpu |-> 10, ram |-> 20, storage |-> 15,
                      motherboard |-> 10, power_supply |-> 8, case |-> 7],
     universal   |-> [cpu |-> 25, gpu |-> 20, ram |-> 15, storage |-> 15,
                      motherboard |-> 10, power_supply |-> 8, case |-> 7]]

\* purpose_map: the key of each purpose and the text the interface shows for
\* it (the Russian texts of the source are written here in Latin letters).
purpose_map ==
    [games       |-> "Igry",
     office      |-> "Ofis i ucheba",
     graphics    |-> "Rabota s grafikoi i 3d",
     video       |-> "Vidomontazh i strimming",
     programming |-> "Programmirovanie",
     universal   |-> "Universalnyi pk"]

\* purpose_key: the key whose text is the purpose given, else "universal".
purpose_key(purpose) ==
    IF \E k \in DOMAIN purpose_map : purpose_map[k] = purpose
    THEN CHOOSE k \in DOMAIN purpose_map : purpose_map[k] = purpose
    ELSE "universal"

\* allocation = purpose_allocations.get(purpose_key, ...["universal"])
allocation(purpose) == DictGet(purpose_allocations, purpose_key(purpose), purpose_allocations["universal"])

\* cpu_budget, gpu_budget, ...: int(budget * allocation[slot]).
price_to(budget_rub, purpose, slot) == int(Times(budget_rub, Literal(allocation(purpose)[slot])))

\* The slots of a PcBuild in the order generate_pc_build fills them.
Slots == <<"cpu", "gpu", "ram", "storage", "motherboard", "power_supply", "case">>

\* PcBuild(budget_usd=int(budget / 75), budget_rub=budget, purpose=purpose):
\* every slot None. The quotient of two whole numbers below 2^53 is never
\* rounded across a whole number, so int(budget / 75) is the whole quotient.
PcBuild(budget_rub, purpose) ==
    [budget_usd |-> budget_rub \div 75, budget_rub |-> budget_rub, purpose |-> purpose,
     cpu |-> None, gpu |-> None, ram |-> None, storage |-> None,
     motherboard |-> None, power_supply |-> None, case |-> None]

\* The budgets in roubles and the purposes the client is called with: texts
\* of the interface, and a key of purpose_map, which is not one of its texts.
ClientBudgets == {180, 90000, 150000}
ClientPurposes == {"Igry", "Ofis i ucheba", "games"}

\* What a get_..._list call can do: return a list of items, or raise.
ApiError == "API Error"
Listings == {<<>>, <<"cheapest", "best-match">>}
Responses ==
    [items : Listings, error : {None}] \cup [items : {<<>>}, error : {Some(ApiError)}]

(***************************************************************************)
(* State                                                                   *)
(***************************************************************************)

VARIABLES
    data_dir,             \* the category files of self.data_dir
    backend,              \* the state of the ILP backend
    components_cache,     \* self.components_cache
    pc,                   \* where the current generate_pc_build call stands
    budget,               \* its arguments
    goal,
    components,           \* its locals
    filtered_components,
    valid_components,
    result,               \* what it returns (or the exception it raises)
    solves,               \* the solver.Solve() calls it made: their lower spend bounds
    previous,             \* the call completed before it: arguments, candidates, result
    tasks,                \* concurrent calls on one instance: each coroutine's frame
    loop,                 \* the call that holds the event loop's thread, or NoTask
    file_reads,           \* how many times the category files were read
    cache_writes,         \* how many times components_cache was assigned
    client,               \* the frame of the market client's generate_pc_build call
    chat                  \* the bot's conversation: dispatcher, FSM storage, messages

\* The instance and its environment.
instance_vars == <<data_dir, backend, components_cache>>

\* The frame of the one call of the sequential specification.
call_vars == <<pc, budget, goal, components, filtered_components, valid_components,
               result, solves, previous>>

\* The state of the specification of concurrent calls.
task_vars == <<tasks, loop, file_reads, cache_writes>>

vars == <<instance_vars, call_vars, task_vars, client, chat>>

\* The variables the sequential specification leaves alone.
beyond_call == <<task_vars, client, chat>>

\* No value yet.
NoResult == [status |-> "NONE"]

\* {}: the empty dict.
EmptyDict == <<>>

NoCall == [status |-> "NONE"]

\* No update handled yet.
NoUpdate == [data |-> <<>>, handler |-> "", wrote |-> FALSE]

\* The bot before the dispatcher is built: no router, no FSM state, no
\* message sent.
NoChat ==
    [routers |-> <<>>, state |-> "", data |-> EmptyDict, messages |-> <<>>,
     selections |-> <<>>, exported |-> <<>>, last |-> NoUpdate]

\* The market client before a call.
NoClientCall ==
    [pc |-> "idle", budget |-> 0, purpose |-> "", pc_build |-> None, calls |-> <<>>,
     returned |-> None, raised |-> None]

Init ==
    /\ data_dir \in DataDirs
    /\ backend \in Backends
    /\ components_cache = EmptyDict
    /\ pc = "idle"
    /\ budget = 0
    /\ goal = ""
    /\ components = EmptyDict
    /\ filtered_components = EmptyDict
    /\ valid_components = EmptyDict
    /\ result = NoResult
    /\ solves = <<>>
    /\ previous = NoCall
    /\ tasks = <<>>
    /\ loop = 0
    /\ file_reads = 0
    /\ cache_writes = 0
    /\ client = NoClientCall
    /\ chat = NoChat

(***************************************************************************)
(* Operations                                                              *)
(***************************************************************************)

\* Mutant: a load that gives up at the first file it cannot parse.
LoadedComponents_FailOnUnreadable(dir) ==
    IF \E c \in Categories : dir[c].state = "unreadable"
    THEN <<>>
    ELSE [c \in {c \in Categories : dir[c].state = "ok"} |-> dir[c].parts]

\* What _load_components_sync reads: the categories whose file exists and
\* parses; a missing file is skipped with a warning, an unreadable one with
\* an error message.
LoadedComponents(dir) ==
    [c \in {c \in Categories : dir[c].state = "ok"} |-> dir[c].parts]

\* Mutant: a cache that keeps only the first part of every category.
CacheAfterLoad_FirstPartOnly(loaded) ==
    [c \in DOMAIN loaded |-> Take(loaded[c], 1)]

\* self.components_cache = components
CacheAfterLoad(loaded) == loaded

\* generate_pc_build(budget, goal) is called; load_components_async returns
\* the cache when it is not empty, and otherwise hands the load to a thread.
GeneratePcBuild(b, g) ==
    /\ pc = "idle"
    /\ budget' = b
    /\ goal' = g
    /\ IF components_cache # EmptyDict
       THEN /\ components' = components_cache
            /\ pc' = "filter"
       ELSE /\ components' = EmptyDict
            /\ pc' = "loading"
    /\ filtered_components' = EmptyDict
    /\ valid_components' = EmptyDict
    /\ result' = NoResult
    /\ solves' = <<>>
    /\ UNCHANGED <<data_dir, backend, components_cache, previous>>
    /\ UNCHANGED beyond_call

\* _load_components_sync: raises ValueError when nothing was loaded, else
\* stores the components in the cache and returns them.
LoadComponentsSync ==
    /\ pc = "loading"
    /\ IF LoadedComponents(data_dir) = EmptyDict
       THEN /\ result' = [status |-> "EXCEPTION", exception |-> "ValueError"]
            /\ pc' = "done"
            /\ UNCHANGED <<components, components_cache>>
       ELSE /\ components_cache' = CacheAfterLoad(LoadedComponents(data_dir))
            /\ components' = LoadedComponents(data_dir)
            /\ pc' = "filter"
            /\ UNCHANGED result
    /\ UNCHANGED <<data_dir, backend, budget, goal, filtered_components,
                   valid_components, solves, previous>>
    /\ UNCHANGED beyond_call

\* The lists the cache holds, after the filter: filtered_items is a list of
\* its own, filled by append, and it is that list which is sorted and sliced;
\* the list of the cache is only iterated.
ListsAfterFilter(cache, g, b) == cache

\* filtered_components = self._filter_components_by_goal(components, goal, budget)
FilterComponents ==
    /\ pc = "filter"
    /\ filtered_components' = _filter_components_by_goal(components, goal, budget)
    /\ components_cache' = ListsAfterFilter(components_cache, goal, budget)
    /\ pc' = "score"
    /\ UNCHANGED <<data_dir, backend, budget, goal, components,
                   valid_components, result, solves, previous>>
    /\ UNCHANGED beyond_call

\* Mutant: the early return without the check for missing categories.
EarlyReturn_NoMissingCheck(valid) ==
    IF valid = EmptyDict
    THEN [status |-> "ERROR",
          message |-> "No valid components with price and utility values found"]
    ELSE NoResult

\* What generate_pc_build returns before the solve, if anything: ERROR when
\* no category has a valid item, ERROR when a required category is missing.
EarlyReturn(valid) ==
    IF valid = EmptyDict
    THEN [status |-> "ERROR",
          message |-> "No valid components with price and utility values found"]
    ELSE IF missing_categories(valid) # {}
    THEN [status |-> "ERROR", message |-> "Missing components for categories"]
    ELSE NoResult

\* Mutant: item['utility'] = utility on the part itself, which is the part
\* the cache holds.
PartsAfterScoring_InPlace(cache, filtered, g, b) ==
    [c \in DOMAIN cache |->
        [i \in 1..Len(cache[c]) |->
            IF /\ c \in DOMAIN filtered
               /\ \E k \in 1..Len(filtered[c]) : filtered[c][k] = cache[c][i]
               /\ IsValidItem(cache[c][i], c, g, b)
            THEN item_with_utility(cache[c][i], c, g, b)
            ELSE cache[c][i]]]

\* The parts the cache holds, after the scoring loop: the utility is set on
\* item.copy(), a dict of its own, and the loop only reads the part.
PartsAfterScoring(cache, filtered, g, b) == cache

\* The scoring loop and the two checks that follow it.
ScoreComponents ==
    /\ pc = "score"
    /\ valid_components' = ValidComponents(filtered_components, goal, budget)
    /\ components_cache' = PartsAfterScoring(components_cache, filtered_components,
                                             goal, budget)
    /\ result' = EarlyReturn(valid_components')
    /\ pc' = IF result' = NoResult THEN "solve" ELSE "done"
    /\ UNCHANGED <<data_dir, backend, budget, goal, components,
                   filtered_components, solves, previous>>
    /\ UNCHANGED beyond_call

\* await asyncio.to_thread(self._solve_mckp, valid_components, budget, goal):
\* the call goes on when solver.Solve() has returned, which a search that does
\* not end never does; no time limit is set on the solver or on the await.
SolveMckp ==
    /\ pc = "solve"
    /\ backend # "stalled"
    /\ LET returned == _solve_mckp(valid_components, budget, goal, backend)
       IN  /\ result' = returned.result
           /\ solves' = returned.solves
    /\ pc' = "done"
    /\ UNCHANGED <<data_dir, backend, components_cache, budget, goal, components,
                   filtered_components, valid_components, previous>>
    /\ UNCHANGED beyond_call

\* The call ends: the caller has the result (or the exception).
Return ==
    /\ pc = "done"
    /\ previous' = [status |-> "DONE", budget |-> budget, goal |-> goal,
                    filtered_components |-> filtered_components,
                    valid_components |-> valid_components, result |-> result]
    /\ pc' = "idle"
    /\ UNCHANGED <<data_dir, backend, components_cache, budget, goal, components,
                   filtered_components, valid_components, result, solves>>
    /\ UNCHANGED beyond_call

Next ==
    \/ \E b \in Budgets, g \in Goals : GeneratePcBuild(b, g)
    \/ LoadComponentsSync
    \/ FilterComponents
    \/ ScoreComponents
    \/ SolveMckp
    \/ Return

Spec == Init /\ [][Next]_vars

(***************************************************************************)
(* Concurrent calls of generate_pc_build on one instance.  The calls are   *)
(* asyncio coroutines: between two awaits a coroutine runs on the event    *)
(* loop's thread, alone; await asyncio.to_thread(f) runs f in a worker     *)
(* thread and suspends the coroutine, which resumes on the loop after f    *)
(* has ended.                                                              *)
(***************************************************************************)

\* How many calls are made concurrently.
MaxTasks == 2

Tasks == 1..MaxTasks

\* No call holds the event loop's thread.
NoTask == 0

\* The data directories, budgets and goals of the concurrent calls.
ConcurrentDirs == {MandatoryOnlyDir, ToyDir, EmptyDir}

ConcurrentBudgets == {500, 1000}

ConcurrentGoals == {"games", "universal"}

\* The frame of a coroutine that has not been called yet.  began_while_solving
\* and cache_hit record how the call met the others.
NewTask ==
    [pc |-> "idle", budget |-> 0, goal |-> "", components |-> EmptyDict,
     filtered_components |-> EmptyDict, valid_components |-> EmptyDict,
     result |-> NoResult, began_while_solving |-> {}, cache_hit |-> FALSE]

ConcurrentInit ==
    /\ data_dir \in ConcurrentDirs
    /\ backend \in Backends
    /\ components_cache = EmptyDict
    /\ pc = "idle"
    /\ budget = 0
    /\ goal = ""
    /\ components = EmptyDict
    /\ filtered_components = EmptyDict
    /\ valid_components = EmptyDict
    /\ result = NoResult
    /\ solves = <<>>
    /\ previous = NoCall
    /\ tasks = [t \in Tasks |-> NewTask]
    /\ loop = NoTask
    /\ file_reads = 0
    /\ cache_writes = 0
    /\ client = NoClientCall
    /\ chat = NoChat

\* Mutant: the function run on the event loop's thread, which the caller holds.
to_thread_Inline(t) == t

\* asyncio.to_thread: who holds the event loop's thread while the function
\* runs in the worker thread -- nobody.
to_thread(t) == NoTask

\* Mutant: every call keeping its arguments and locals in the frame of call 1.
OwnFrame_Shared(t) == 1

\* The frame that holds the arguments and locals of call t: its own.
OwnFrame(t) == t

\* The worker thread of call t has ended: the loop is free if t held it.
Released(t) == IF loop = t THEN NoTask ELSE loop

\* The coroutine from the return of load_components_async to its next await
\* or return, with the arguments b and g: filter, score, the two early
\* returns, else the solve is handed to a thread.
Prepared(frame, loaded, b, g) ==
    LET filtered == _filter_components_by_goal(loaded, g, b)
        valid    == ValidComponents(filtered, g, b)
    IN  [frame EXCEPT !.components = loaded,
                      !.filtered_components = filtered,
                      !.valid_components = valid,
                      !.result = EarlyReturn(valid),
                      !.pc = IF EarlyReturn(valid) = NoResult THEN "solving" ELSE "done"]

\* generate_pc_build(b, g) is called and runs to its first await: with a
\* cache it goes on to the solve, without one it hands the load to a thread.
Call(t, b, g) ==
    /\ loop = NoTask
    /\ tasks[t].pc = "idle"
    /\ LET called == [tasks[t] EXCEPT
                         !.budget = b, !.goal = g,
                         !.began_while_solving = {u \in Tasks : tasks[u].pc = "solving"},
                         !.cache_hit = (components_cache # EmptyDict)]
           frame  == IF components_cache # EmptyDict
                     THEN Prepared(called, components_cache, b, g)
                     ELSE [called EXCEPT !.pc = "loading"]
       IN  /\ tasks' = [tasks EXCEPT ![t] = frame]
           /\ loop' = IF frame.pc = "done" THEN NoTask ELSE to_thread(t)
    /\ UNCHANGED <<client, chat, instance_vars, call_vars, file_reads, cache_writes>>

\* _load_components_sync in its thread reads the category files; with nothing
\* read it raises and the thread ends.
ReadFiles(t) ==
    /\ tasks[t].pc = "loading"
    /\ file_reads' = file_reads + 1
    /\ IF LoadedComponents(data_dir) = EmptyDict
       THEN /\ tasks' = [tasks EXCEPT ![t].pc = "load_raised"]
            /\ loop' = Released(t)
       ELSE /\ tasks' = [tasks EXCEPT ![t].components = LoadedComponents(data_dir),
                                      ![t].pc = "read"]
            /\ UNCHANGED loop
    /\ UNCHANGED <<client, chat, instance_vars, call_vars, cache_writes>>

\* self.components_cache = components; return components: the thread ends.
StoreCache(t) ==
    /\ tasks[t].pc = "read"
    /\ components_cache' = CacheAfterLoad(tasks[t].components)
    /\ cache_writes' = cache_writes + 1
    /\ tasks' = [tasks EXCEPT ![t].pc = "load_returned"]
    /\ loop' = Released(t)
    /\ UNCHANGED <<client, chat, data_dir, backend, call_vars, file_reads>>

\* The coroutine resumes after the load: the exception propagates, or it
\* goes on to the solve.
ResumeAfterLoad(t) ==
    /\ loop = NoTask
    /\ tasks[t].pc \in {"load_raised", "load_returned"}
    /\ LET frame == IF tasks[t].pc = "load_raised"
                    THEN [tasks[t] EXCEPT
                             !.result = [status |-> "EXCEPTION", exception |-> "ValueError"],
                             !.pc = "done"]
                    ELSE Prepared(tasks[t], tasks[t].components,
                                  tasks[OwnFrame(t)].budget, tasks[OwnFrame(t)].goal)
       IN  /\ tasks' = [tasks EXCEPT ![t] = frame]
           /\ loop' = IF frame.pc = "done" THEN NoTask ELSE to_thread(t)
    /\ UNCHANGED <<client, chat, instance_vars, call_vars, file_reads, cache_writes>>

\* _solve_mckp in its thread returns.
SolveInThread(t) ==
    /\ tasks[t].pc = "solving"
    /\ tasks' = [tasks EXCEPT
                    ![t].result = _solve_mckp(tasks[t].valid_components, tasks[t].budget,
                                              tasks[t].goal, backend).result,
                    ![t].pc = "solved"]
    /\ loop' = Released(t)
    /\ UNCHANGED <<client, chat, instance_vars, call_vars, file_reads, cache_writes>>

\* The coroutine resumes after the solve and returns its result.
ResumeAfterSolve(t) ==
    /\ loop = NoTask
    /\ tasks[t].pc = "solved"
    /\ tasks' = [tasks EXCEPT ![t].pc = "done"]
    /\ UNCHANGED <<client, chat, instance_vars, call_vars, loop, file_reads, cache_writes>>

ConcurrentNext ==
    \/ \E t \in Tasks, b \in ConcurrentBudgets, g \in ConcurrentGoals : Call(t, b, g)
    \/ \E t \in Tasks : ReadFiles(t)
    \/ \E t \in Tasks : StoreCache(t)
    \/ \E t \in Tasks : ResumeAfterLoad(t)
    \/ \E t \in Tasks : SolveInThread(t)
    \/ \E t \in Tasks : ResumeAfterSolve(t)

ConcurrentSpec == ConcurrentInit /\ [][ConcurrentNext]_vars

(***************************************************************************)
(* The market client's operations                                          *)
(***************************************************************************)

\* generate_pc_build(budget, purpose): the allocation is chosen and the empty
\* PcBuild is created.
ClientGeneratePcBuild(b, p) ==
    /\ client.pc = "idle"
    /\ client' = [client EXCEPT !.pc = "querying", !.budget = b, !.purpose = p,
                                !.pc_build = PcBuild(b, p)]
    /\ UNCHANGED <<instance_vars, call_vars, task_vars, chat>>

\* if cpus: pc_build.cpu = cpus[0], and the same for every slot.
Filled(frame, slot, listing) ==
    IF listing # <<>>
    THEN [frame EXCEPT !.pc_build = [@ EXCEPT ![slot] = Some(listing[1])]]
    ELSE frame

\* Mutant: an except clause that logs the error and goes on.
Reraise_Swallowed(frame, e) == frame

\* except Exception as e: logger.error(...); raise
Reraise(frame, e) == [frame EXCEPT !.pc = "raised", !.raised = Some(e)]

\* One await self.get_..._list(price_to=...): the next slot's list is asked
\* for; the call raises, or returns a list and the slot is filled.
GetList(response) ==
    /\ client.pc = "querying"
    /\ Len(client.calls) < Len(Slots)
    /\ LET slot  == Slots[Len(client.calls) + 1]
           call  == [slot |-> slot,
                     price_to |-> price_to(client.budget, client.purpose, slot),
                     response |-> response]
           asked == [client EXCEPT !.calls = Append(@, call)]
       IN  client' = IF response.error # None
                     THEN Reraise(asked, response.error[1])
                     ELSE Filled(asked, slot, response.items)
    /\ UNCHANGED <<instance_vars, call_vars, task_vars, chat>>

\* return pc_build
ClientReturn ==
    /\ client.pc = "querying"
    /\ Len(client.calls) = Len(Slots)
    /\ client' = [client EXCEPT !.pc = "returned", !.returned = Some(client.pc_build)]
    /\ UNCHANGED <<instance_vars, call_vars, task_vars, chat>>

ClientNext ==
    \/ \E b \in ClientBudgets, p \in ClientPurposes : ClientGeneratePcBuild(b, p)
    \/ \E response \in Responses : GetList(response)
    \/ ClientReturn

\* The client shares nothing with the allocation engine, whose instance is
\* left as it is created, on one directory and one backend.
ClientInit == Init /\ data_dir = EmptyDir /\ backend = "ok"

ClientSpec == ClientInit /\ [][ClientNext]_vars

(***************************************************************************)
(* The filter on catalogs of a thousand parts and more                     *)
(***************************************************************************)

\* The largest catalog of one category.
MaxCatalog == 1900

\* The sizes of a category's catalog: around the 100 of the high-end set and
\* the 1000 of the cap, and where the step of the balanced set becomes 2.
CatalogSizes == {0, 1, HighEndCount, HighEndCount + 1, MaxFiltered + 1, MaxCatalog}

\* How the prices of a catalog run through the file: rising by a dollar,
\* falling by a dollar, or thirty prices from 10 to 300 dollars in turn.
PriceRuns == {"rising", "falling", "repeating"}

PriceAt(i, n, run) ==
    IF run = "rising" THEN i
    ELSE IF run = "falling" THEN n + 1 - i
    ELSE 10 * (1 + (i % 30))

\* A catalog of n parts.
Catalog(n, run) == [i \in 1..n |-> [name |-> ToString(i), price |-> PriceAt(i, n, run)]]

\* The categories, goals and budgets the large catalogs are filtered for.
FilterCategories == {"cpu", "video_card"}
FilterGoals == {"games"}
FilterBudgets == {500, 1000, 1500, 2000}

\* A call that has loaded one category's catalog and is about to filter it.
FilterInit ==
    /\ data_dir = EmptyDir
    /\ backend = "ok"
    /\ components_cache = EmptyDict
    /\ pc = "filter"
    /\ budget \in FilterBudgets
    /\ goal \in FilterGoals
    /\ \E c \in FilterCategories, n \in CatalogSizes, run \in PriceRuns :
          components = (c :> Catalog(n, run))
    /\ filtered_components = EmptyDict
    /\ valid_components = EmptyDict
    /\ result = NoResult
    /\ solves = <<>>
    /\ previous = NoCall
    /\ tasks = <<>>
    /\ loop = 0
    /\ file_reads = 0
    /\ cache_writes = 0
    /\ client = NoClientCall
    /\ chat = NoChat

FilterNext == FilterComponents

FilterSpec == FilterInit /\ [][FilterNext]_vars

(***************************************************************************)
(* Calls that must end: the sequential calls under fair scheduling         *)
(***************************************************************************)

\* The backend again, now with a search that does not end.
LiveBackends == Backends \cup {"stalled"}

LiveInit ==
    /\ data_dir \in ConcurrentDirs
    /\ backend \in LiveBackends
    /\ components_cache = EmptyDict
    /\ pc = "idle"
    /\ budget = 0
    /\ goal = ""
    /\ components = EmptyDict
    /\ filtered_components = EmptyDict
    /\ valid_components = EmptyDict
    /\ result = NoResult
    /\ solves = <<>>
    /\ previous = NoCall
    /\ tasks = <<>>
    /\ loop = 0
    /\ file_reads = 0
    /\ cache_writes = 0
    /\ client = NoClientCall
    /\ chat = NoChat

\* Where a call can stand.
ProgramPoints == {"idle", "loading", "filter", "score", "solve", "done"}

\* A step of the call is ready at every point but one: in a solve whose
\* search does not end there is nothing to run.
Runnable == ~(pc = "solve" /\ backend = "stalled")

\* The call moves on from where it stands. Every step of Next moves pc, so
\* the moves of a runnable call are the steps of Next.
Advance ==
    /\ Runnable
    /\ pc' \in ProgramPoints
    /\ pc' # pc

\* The event loop and the worker thread run the step that is ready: a call
\* that stays runnable moves on.
LiveSpec == LiveInit /\ [][Next]_vars /\ WF_pc(Advance)

(***************************************************************************)
(* The scorer on single parts                                              *)
(***************************************************************************)

\* Form factors and storage types as catalogs spell them.
EATX == <<"E", "A", "T", "X">>

ThinMiniITX == <<"T", "h", "i", "n", " ", "M", "i", "n", "i", " ", "I", "T", "X">>

M2NVMe == <<"M", ".", "2", " ", "N", "V", "M", "e">>

FormFactors == {ATX, MicroATX, MiniITX, EATX, ThinMiniITX}

StorageTypes == {Rpm7200, SSD, NVMeSSD, M2NVMe}

\* The capacities of the storage parts, in GB.
Capacities == {1000, 2000}

\* The parts scored one at a time, by category: with and without the field
\* the score looks at.
ScorerParts ==
    [motherboard |->
        {[name |-> "board", price |-> 100]}
        \cup {[name |-> "board", price |-> 100, form_factor |-> f] : f \in FormFactors},
     storage |->
        {[name |-> "drive", price |-> 100]}
        \cup {[name |-> "drive", price |-> 100, capacity |-> k, type |-> t] :
                 k \in Capacities, t \in StorageTypes}]

ScorerBudgets == {500, 1500, 2000}
ScorerGoals == {"games", "office"}

\* A call whose filter has let one part of one category through.
ScorerInit ==
    /\ data_dir = EmptyDir
    /\ backend = "ok"
    /\ components_cache = EmptyDict
    /\ pc = "score"
    /\ budget \in ScorerBudgets
    /\ goal \in ScorerGoals
    /\ \E c \in DOMAIN ScorerParts : \E part \in ScorerParts[c] :
          /\ components = (c :> <<part>>)
          /\ filtered_components = (c :> <<part>>)
    /\ valid_components = EmptyDict
    /\ result = NoResult
    /\ solves = <<>>
    /\ previous = NoCall
    /\ tasks = <<>>
    /\ loop = 0
    /\ file_reads = 0
    /\ cache_writes = 0
    /\ client = NoClientCall
    /\ chat = NoChat

ScorerNext == ScoreComponents

ScorerSpec == ScorerInit /\ [][ScorerNext]_vars

(***************************************************************************)
(* The bot: the dispatcher built by main(), the two routers and their      *)
(* handlers.  aiogram is an external collaborator, taken by its contract:  *)
(* an update goes to the first handler, in the order of registration, of   *)
(* the routers included in the dispatcher whose filters accept it, and is  *)
(* dropped when none does; state.clear() empties the state and the data;   *)
(* update_data merges keys into the data.  Callback data is held as its    *)
(* pieces between '_' ("price_1000" is <<"price", "1000">>), the form the  *)
(* handlers take it apart in.  A handler runs as one step.  start_command  *)
(* (/start) answers with a text and touches neither state nor keyboards;   *)
(* it has no step here.                                                    *)
(***************************************************************************)

\* The routers of the package, by the names of their module variables.
assemby_router == "assemby_router"

callback_router == "callback_router"

\* dp.include_router(router=assemby_router): the only router main() includes.
IncludedByMain == <<assemby_router>>

\* A dispatcher that has callback_router included after assemby_router.
IncludedBoth == <<assemby_router, callback_router>>

\* The states of PcAssemblerFSM the handlers name.
PcAssemblerFSM_price == "PcAssemblerFSM:price"

PcAssemblerFSM_goals == "PcAssemblerFSM:goals"

\* Callback data of the buttons.
restart == <<"restart">>

save_build == <<"save", "build">>

new_assembly == <<"new", "assembly">>

\* get_price_keyboard(): the buttons price_1000 ... price_5000, three of them drawn.
PriceButtons == {<<"price", "1000">>, <<"price", "1500">>, <<"price", "2000">>}

\* get_goals_keyboard(): the buttons goal_games ... goal_universal, two of them drawn.
GoalButtons == {<<"goal", "games">>, <<"goal", "universal">>}

\* The keyboard under the OPTIMAL message.
OptimalKeyboard == {restart, save_build}

\* The keyboard under the INFEASIBLE message, the ERROR message and the
\* message of the except branch.
RetryKeyboard == {restart}

\* float(data.get('price', '1000')) for the texts the price buttons carry.
float(text) ==
    CASE text = "1000" -> 1000
      [] text = "1500" -> 1500
      [] text = "2000" -> 2000

\* The directories the bot's service reads.
BotDirs == {FullDir, ToyDir, EmptyDir}

\* How many messages with a keyboard the chat holds.
MaxMessages == 2

\* How many goal selections a conversation makes.
MaxSelections == 2

\* How many files a conversation has exported.
MaxExports == 1

\* lambda c: c.data.startswith('price_')
IsPriceData(d) == Len(d) >= 2 /\ d[1] = "price"

\* lambda c: c.data.startswith('goal_')
IsGoalData(d) == Len(d) >= 2 /\ d[1] = "goal"

\* The callback_query handlers of a router, in the order of registration:
\* the name of the first whose filters accept the update, "" when none does.
HandlerIn(router, state, d) ==
    IF router = assemby_router
    THEN IF state = PcAssemblerFSM_price /\ IsPriceData(d) THEN "process_price_selection"
         ELSE IF state = PcAssemblerFSM_goals /\ IsGoalData(d) THEN "process_goal_selection"
         ELSE IF d = new_assembly THEN "start_new_assembly"
         ELSE ""
    ELSE IF d = restart THEN "restart_configuration"
         ELSE IF d = save_build THEN "save_build_configuration"
         ELSE ""

\* The dispatcher's propagation over the included routers: the handler that
\* takes the update, or UNHANDLED.
Propagate(routers, state, d) ==
    LET taking == {i \in 1..Len(routers) : HandlerIn(routers[i], state, d) # ""}
    IN  IF taking = {} THEN "UNHANDLED"
        ELSE HandlerIn(routers[CHOOSE i \in taking : \A j \in taking : i <= j], state, d)

\* message.edit_text(..., reply_markup=keyboard) on message m.
Edited(c, m, keyboard) == [c EXCEPT !.messages[m] = keyboard]

\* process_price_selection
process_price_selection(c, m, d) ==
    Edited([c EXCEPT !.data = ("price" :> d[2]) @@ c.data, !.state = PcAssemblerFSM_goals],
           m, GoalButtons)

\* What process_goal_selection leaves in the data after the call:
\* state.update_data(build_result=result) in the OPTIMAL branch only.
StoredAfterSelection(data, built) ==
    IF built.status = "OPTIMAL" THEN ("build_result" :> built) @@ data ELSE data

\* process_goal_selection once generate_pc_build has answered (built; an
\* exception goes to the except branch): the goal is stored, and the build
\* when it is OPTIMAL; the message ends with the keyboard of the branch taken.
process_goal_selection(c, m, d, built) ==
    Edited([c EXCEPT !.data = StoredAfterSelection(("goal" :> d[2]) @@ c.data, built),
                     !.selections = Append(@, built)],
           m, IF built.status = "OPTIMAL" THEN OptimalKeyboard ELSE RetryKeyboard)

\* start_new_assembly: the state is set, the data is left as it is.
start_new_assembly(c, m) == Edited([c EXCEPT !.state = PcAssemblerFSM_price], m, PriceButtons)

\* restart_configuration: state.clear(), then set_state(PcAssemblerFSM.price).
restart_configuration(c, m) ==
    Edited([c EXCEPT !.state = PcAssemblerFSM_price, !.data = EmptyDict], m, PriceButtons)

\* The build save_build_configuration writes to a file, if any:
\* data.get("build_result") with status OPTIMAL.
BuildToSave(data) ==
    IF "build_result" \in DOMAIN data /\ data["build_result"].status = "OPTIMAL"
    THEN Some(data["build_result"])
    ELSE None

\* save_build_configuration: the file is written and sent; the message keeps
\* its keyboard.
save_build_configuration(c) ==
    IF BuildToSave(c.data) = None THEN c
    ELSE [c EXCEPT !.exported =
             Append(@, [build |-> BuildToSave(c.data)[1], after |-> Len(c.selections)])]

\* The chat after the named handler has run; process_goal_selection, which
\* calls the service, is a step of its own.
Handled(handler, c, m, d) ==
    CASE handler = "process_price_selection" -> process_price_selection(c, m, d)
      [] handler = "start_new_assembly" -> start_new_assembly(c, m)
      [] handler = "restart_configuration" -> restart_configuration(c, m)
      [] handler = "save_build_configuration" -> save_build_configuration(c)
      [] OTHER -> c

\* /start_assembly: start_assembly clears the state, sets the price state and
\* answers with a new message that has the price keyboard.
StartAssembly ==
    /\ Len(chat.messages) < MaxMessages
    /\ chat' = [chat EXCEPT !.state = PcAssemblerFSM_price, !.data = EmptyDict,
                            !.messages = Append(@, PriceButtons),
                            !.last = [data |-> <<"start", "assembly">>,
                                      handler |-> "start_assembly", wrote |-> FALSE]]
    /\ UNCHANGED <<instance_vars, call_vars, task_vars, client>>

\* The user presses button d of message m and the update goes to a handler
\* other than process_goal_selection, or to none.
CallbackQuery(m, d) ==
    /\ m \in 1..Len(chat.messages)
    /\ d \in chat.messages[m]
    /\ d = save_build => Len(chat.exported) < MaxExports
    /\ Propagate(chat.routers, chat.state, d) # "process_goal_selection"
    /\ LET handler == Propagate(chat.routers, chat.state, d)
           after   == Handled(handler, chat, m, d)
       IN  chat' = [after EXCEPT !.last =
                       [data |-> d, handler |-> handler,
                        wrote |-> Len(after.exported) > Len(chat.exported)]]
    /\ UNCHANGED <<instance_vars, call_vars, task_vars, client>>

\* The user presses a goal button of message m and process_goal_selection
\* takes the update: PcAssemblerService(data_dir) is built anew and its
\* generate_pc_build(budget=float(data.get('price', '1000')), goal=goal_key)
\* runs from the load to the result; bk is the state of the ILP backend when
\* the call reaches it.
GoalSelection(m, d, bk) ==
    /\ m \in 1..Len(chat.messages)
    /\ d \in chat.messages[m]
    /\ Len(chat.selections) < MaxSelections
    /\ Propagate(chat.routers, chat.state, d) = "process_goal_selection"
    /\ budget' = float(DictGet(chat.data, "price", "1000"))
    /\ goal' = d[2]
    /\ components' = LoadedComponents(data_dir)
    /\ filtered_components' = _filter_components_by_goal(components', goal', budget')
    /\ valid_components' = ValidComponents(filtered_components', goal', budget')
    /\ result' = IF components' = EmptyDict
                 THEN [status |-> "EXCEPTION", exception |-> "ValueError"]
                 ELSE IF EarlyReturn(valid_components') # NoResult
                 THEN EarlyReturn(valid_components')
                 ELSE _solve_mckp(valid_components', budget', goal', bk).result
    /\ chat' = [process_goal_selection(chat, m, d, result') EXCEPT !.last =
                    [data |-> d, handler |-> "process_goal_selection", wrote |-> FALSE]]
    /\ UNCHANGED <<instance_vars, pc, solves, previous, task_vars, client>>

BotNext ==
    \/ StartAssembly
    \/ \E m \in 1..MaxMessages, d \in PriceButtons \cup GoalButtons \cup OptimalKeyboard :
          CallbackQuery(m, d)
    \/ \E m \in 1..MaxMessages, d \in GoalButtons, bk \in Backends : GoalSelection(m, d, bk)

\* The bot once a dispatcher with the given routers polls: no service call
\* under way, nothing stored for the chat.
Polling(routers) ==
    /\ data_dir \in BotDirs
    /\ backend = "ok"
    /\ components_cache = EmptyDict
    /\ pc = "idle"
    /\ budget = 0
    /\ goal = ""
    /\ components = EmptyDict
    /\ filtered_components = EmptyDict
    /\ valid_components = EmptyDict
    /\ result = NoResult
    /\ solves = <<>>
    /\ previous = NoCall
    /\ tasks = <<>>
    /\ loop = 0
    /\ file_reads = 0
    /\ cache_writes = 0
    /\ client = NoClientCall
    /\ chat = [NoChat EXCEPT !.routers = routers]

\* The bot as main() builds it.
BotInit == Polling(IncludedByMain)

BotSpec == BotInit /\ [][BotNext]_vars

\* The bot with callback_router included in the dispatcher as well.
IncludedInit == Polling(IncludedBoth)

IncludedSpec == IncludedInit /\ [][BotNext]_vars

(***************************************************************************)
(* Properties                                                              *)
(***************************************************************************)

RECURSIVE OnePerCategory(_, _)
\* Every way to pick exactly one candidate from each category of cats.
OnePerCategory(candidates, cats) ==
    IF cats = {} THEN {<<>>}
    ELSE LET c == CHOOSE d \in cats : TRUE
         IN  {(c :> i) @@ s : s \in OnePerCategory(candidates, cats \ {c}),
                              i \in 1..Len(candidates[c])}

\* The total price of a selection, in dollars.
SelectionPrice(candidates, s) ==
    SumSet([c \in DOMAIN s |-> candidates[c][s[c]].price], DOMAIN s)

\* The total utility of a selection.
SelectionUtility(candidates, s) ==
    SumSet([c \in DOMAIN s |-> candidates[c][s[c]].utility], DOMAIN s)

\* total >= 0.8 x budget
ReachesFloor(total, b) == total * 10 >= b * 8

\* The one-per-category selections over all the categories with candidates.
FullSelections == OnePerCategory(valid_components, DOMAIN valid_components)

\* The one-per-category selections over the five mandatory categories.
MandatorySelections == OnePerCategory(valid_components, required_categories)

\* The call has ended with a result of the solver stage.
Solved == pc = "done" /\ required_categories \subseteq DOMAIN valid_components

\* The call has ended with status OPTIMAL.
Optimal == pc = "done" /\ result.status = "OPTIMAL"

\* How many entries of components_with_details belong to category c.
DetailsOf(c) ==
    Cardinality({k \in 1..Len(result.components_with_details) :
                    result.components_with_details[k].category = c})

\* C1: whenever generate_pc_build returns OPTIMAL, total_price is the sum of
\* the prices of the selected parts and is at most the budget, so
\* remaining_budget is not negative.
C1_TotalWithinBudget ==
    Optimal =>
        /\ result.total_price =
               SumSet([c \in DOMAIN result.selected_components |->
                          result.selected_components[c].price],
                      DOMAIN result.selected_components)
        /\ result.total_price <= budget
        /\ result.remaining_budget = budget - result.total_price
        /\ result.remaining_budget >= 0

\* C1 happens: an OPTIMAL result for candidates of which some selection
\* costs more than the budget.
C1_Witness ==
    /\ Optimal
    /\ \E s \in FullSelections : SelectionPrice(valid_components, s) > budget

\* C2: in every OPTIMAL result each category that had candidates has exactly
\* one selected part, a part of that category's candidates, and the five
\* mandatory categories are among the selected ones.
C2_OnePerCategory ==
    Optimal =>
        /\ DOMAIN result.selected_components = DOMAIN valid_components
        /\ \A c \in DOMAIN valid_components :
              /\ DetailsOf(c) = 1
              /\ \E i \in 1..Len(valid_components[c]) :
                    result.selected_components[c] = valid_components[c][i]
        /\ required_categories \subseteq DOMAIN result.selected_components

\* C2 happens: an OPTIMAL result over all seven categories where the budget
\* leaves no room for a second part of the cheapest kind.
C2_Witness ==
    /\ Optimal
    /\ DOMAIN valid_components = Categories
    /\ \E c \in Categories : Len(valid_components[c]) >= 2
    /\ result.remaining_budget < 40

\* The solver stage ran with a working backend.
SolvedByBackend == Solved /\ backend = "ok"

\* Some one-per-category selection of the candidates fits under the budget.
SomeSelectionFits ==
    \E s \in FullSelections : SelectionPrice(valid_components, s) <= budget

\* Some one-per-category selection costs between 0.8 x budget and budget.
SomeSelectionReachesFloor ==
    \E s \in FullSelections :
        /\ SelectionPrice(valid_components, s) <= budget
        /\ ReachesFloor(SelectionPrice(valid_components, s), budget)

\* C3: for budget >= 1500, when some selection fits under the budget but no
\* selection reaches 0.8 x budget, the engine solves again without the floor
\* and returns OPTIMAL; INFEASIBLE is returned only after a solve whose lower
\* spend bound is 0 has been made.
C3_RetryWithoutFloor ==
    /\ (SolvedByBackend /\ budget >= 1500 /\ SomeSelectionFits
            /\ ~SomeSelectionReachesFloor)
          => result.status = "OPTIMAL"
    /\ (SolvedByBackend /\ budget >= 1500 /\ result.status = "INFEASIBLE")
          => \E k \in 1..Len(solves) : solves[k] = 0

\* C4: for budget >= 1500, when the solver stage runs with a working backend
\* and some one-per-category selection of the candidates costs between
\* 0.8 x budget and budget, the result is OPTIMAL with
\* total_price >= 0.8 x budget.
C4_FloorReached ==
    (SolvedByBackend /\ budget >= 1500 /\ SomeSelectionReachesFloor)
        => /\ result.status = "OPTIMAL"
           /\ ReachesFloor(result.total_price, budget)

\* C4 happens: an OPTIMAL result for budget >= 1500 although a cheaper
\* selection, below the floor, has a greater total utility.
C4_Witness ==
    /\ Optimal
    /\ budget >= 1500
    /\ \E s \in FullSelections :
          /\ ~ReachesFloor(SelectionPrice(valid_components, s), budget)
          /\ SelectionUtility(valid_components, s) > result.total_utility

\* Some selection of one part from each mandatory category fits the budget.
MandatoryPartsFit ==
    \E s \in MandatorySelections : SelectionPrice(valid_components, s) <= budget

\* Some selection of one part from every category with candidates satisfies
\* the spend rows: at most the budget and, for budget >= 1500, at least
\* 0.8 x budget.
SomeFullSelectionAllowed ==
    \E s \in FullSelections :
        /\ SelectionPrice(valid_components, s) <= budget
        /\ budget >= 1500 => ReachesFloor(SelectionPrice(valid_components, s), budget)

CatalogCoversMandatory ==
    \A c \in required_categories :
        /\ c \in DOMAIN components
        /\ \E i \in 1..Len(components[c]) :
              IsValidItem(components[c][i], c, goal, budget)

\* The budget is too small for a complete set of mandatory parts: a mandatory
\* category has no candidate left after filtering, or no selection of one
\* candidate from each mandatory category fits the budget.
BudgetTooSmall ==
    /\ pc = "done"
    /\ CatalogCoversMandatory
    /\ ~(required_categories \subseteq DOMAIN valid_components /\ MandatoryPartsFit)

\* C6 as stated: when the budget is too small for any complete set of
\* mandatory parts, the result is INFEASIBLE, never ERROR.
C6_TooSmallIsInfeasible ==
    (BudgetTooSmall /\ backend = "ok") => result.status = "INFEASIBLE"

\* C6 amended: when the budget is too small for any complete set of mandatory
\* parts the result is never OPTIMAL; it is ERROR, with a message, when some
\* mandatory category has no candidate left after filtering, and INFEASIBLE
\* (given a working backend) when every mandatory category kept a candidate.
C6_TooSmallNeverBundle ==
    BudgetTooSmall =>
        /\ result.status # "OPTIMAL"
        /\ missing_categories(valid_components) # {}
              => result.status = "ERROR" /\ "message" \in DOMAIN result
        /\ (missing_categories(valid_components) = {} /\ backend = "ok")
              => result.status = "INFEASIBLE"

\* C6 happens: budget 50 on a catalog that covers the mandatory categories
\* ends in ERROR for want of candidates.
C6_Witness ==
    /\ BudgetTooSmall
    /\ budget = 50
    /\ missing_categories(valid_components) # {}
    /\ result.status = "ERROR"

\* The selection satisfies the spend rows of the solve.
Allowed(s) ==
    /\ SelectionPrice(valid_components, s) <= budget
    /\ budget >= 1500 => ReachesFloor(SelectionPrice(valid_components, s), budget)

\* C7: in an OPTIMAL result total_utility is the sum of the utilities of the
\* selected parts, and no selection of one candidate per category that
\* satisfies the same spend rows has a greater total utility.
C7_MaximalUtility ==
    Optimal =>
        /\ result.total_utility =
               SumSet([c \in DOMAIN result.selected_components |->
                          result.selected_components[c].utility],
                      DOMAIN result.selected_components)
        /\ \A s \in FullSelections :
              Allowed(s) => SelectionUtility(valid_components, s) <= result.total_utility

\* C7 happens: the chosen cpu is neither the cheapest candidate nor the one
\* with the greatest base utility, and some allowed selection is worse.
C7_Witness ==
    /\ Optimal
    /\ \E i, j \in 1..Len(valid_components["cpu"]) :
          /\ valid_components["cpu"][i].price < result.selected_components["cpu"].price
          /\ _calculate_base_utility(valid_components["cpu"][j], "cpu")[1]
                > _calculate_base_utility(result.selected_components["cpu"], "cpu")[1]
    /\ \E s \in FullSelections :
          Allowed(s) /\ SelectionUtility(valid_components, s) < result.total_utility

\* C8 as stated: every call of generate_pc_build, whatever the budget, the
\* goal and the data directory, ends by returning a result whose status is
\* OPTIMAL, INFEASIBLE or ERROR, ERROR carrying a message.
C8_ThreeShapes ==
    pc = "done" =>
        /\ result.status \in {"OPTIMAL", "INFEASIBLE", "ERROR"}
        /\ result.status = "ERROR" => "message" \in DOMAIN result

\* The call ended by raising instead of returning.
Raised == pc = "done" /\ result.status = "EXCEPTION"

\* C8 amended: a call of generate_pc_build ends in one of four ways.  It
\* raises ValueError, returning nothing, exactly when no category file of the
\* data directory can be loaded; otherwise it returns a result whose status
\* is OPTIMAL, INFEASIBLE or ERROR, ERROR carrying a message.
C8_ThreeShapesOrRaise ==
    pc = "done" =>
        /\ Raised <=> LoadedComponents(data_dir) = EmptyDict
        /\ Raised => result.exception = "ValueError"
        /\ ~Raised => result.status \in {"OPTIMAL", "INFEASIBLE", "ERROR"}
        /\ result.status = "ERROR" => "message" \in DOMAIN result

\* C8 happens: a call on a data directory with no loadable category file
\* has ended.
C8_Witness ==
    /\ Raised
    /\ \A c \in Categories : data_dir[c].state # "ok"

\* The goal is none of the six known identifiers.
UnknownGoal(g) == g \notin DOMAIN GOAL_TRANSLATIONS

\* A result without its two label fields.
Unlabelled(r) == [f \in DOMAIN r \ {"goal", "goal_ru"} |-> r[f]]

\* The call that has just ended and the one completed before it had the same
\* budget, one with goal universal and the other with an unknown goal.
UniversalAndUnknown ==
    /\ pc = "done"
    /\ previous.status = "DONE"
    /\ previous.budget = budget
    /\ \/ goal = "universal" /\ UnknownGoal(previous.goal)
       \/ UnknownGoal(goal) /\ previous.goal = "universal"

\* C9: on the same catalog and budget, a call with an unknown goal and a call
\* with goal universal have the same filtered candidates, the same scored
\* candidates and the same result (status, selected parts, their utilities,
\* total_price, total_utility, budget_allocation, details), the label fields
\* apart; an OPTIMAL result carries the goal string it was called with in
\* 'goal', and an unknown goal string also in 'goal_ru'.
C9_UnknownGoalAsUniversal ==
    /\ UniversalAndUnknown =>
          /\ filtered_components = previous.filtered_components
          /\ valid_components = previous.valid_components
          /\ Unlabelled(result) = Unlabelled(previous.result)
    /\ Optimal =>
          /\ result.goal = goal
          /\ UnknownGoal(goal) => result.goal_ru = goal

\* The names of the selected parts of an OPTIMAL result.
SelectedNames(r) ==
    [c \in DOMAIN r.selected_components |-> r.selected_components[c].name]

\* What a call with goal games returns for the loaded catalog and this budget.
GamesResult ==
    LET valid == ValidComponents(_filter_components_by_goal(components, "games", budget),
                                 "games", budget)
    IN  IF EarlyReturn(valid) # NoResult THEN EarlyReturn(valid)
        ELSE _solve_mckp(valid, budget, "games", backend).result

\* C9 happens: an OPTIMAL bundle for an unknown goal right after a call with
\* goal universal and the same budget, where the games profile would have
\* selected other parts.
C9_Witness ==
    /\ UniversalAndUnknown
    /\ UnknownGoal(goal)
    /\ Optimal
    /\ result.goal_ru = "unknown_value"
    /\ previous.result.goal_ru # "universal"
    /\ GamesResult.status = "OPTIMAL"
    /\ SelectedNames(GamesResult) # SelectedNames(result)

\* The call that has just ended and the one completed before it, on the same
\* service instance and data directory, had the same budget and goal.
SameRequestTwice ==
    /\ pc = "done"
    /\ previous.status = "DONE"
    /\ previous.budget = budget
    /\ previous.goal = goal

Priced(item) == "price" \in DOMAIN item /\ item.price > 0

\* The part has a utility, and it is greater than 0.
Useful(item) == "utility" \in DOMAIN item /\ item.utility > 0

\* C11: every part the filter lets through has a price greater than 0; every
\* candidate handed to the solver has a price greater than 0 and a utility
\* greater than 0; so has every part of a returned bundle.
C11_CandidatesPricedAndUseful ==
    /\ \A c \in DOMAIN filtered_components :
          \A i \in 1..Len(filtered_components[c]) : Priced(filtered_components[c][i])
    /\ \A c \in DOMAIN valid_components :
          \A i \in 1..Len(valid_components[c]) :
              Priced(valid_components[c][i]) /\ Useful(valid_components[c][i])
    /\ Optimal =>
          \A c \in DOMAIN result.selected_components :
              /\ Priced(result.selected_components[c])
              /\ Useful(result.selected_components[c])

\* C11 happens: an OPTIMAL bundle from a catalog that holds a part with no
\* price and a part whose price is not positive.
C11_Witness ==
    /\ Optimal
    /\ \E c \in DOMAIN components : \E i \in 1..Len(components[c]) :
          "price" \notin DOMAIN components[c][i]
    /\ \E c \in DOMAIN components : \E i \in 1..Len(components[c]) :
          "price" \in DOMAIN components[c][i] /\ components[c][i].price <= 0

\* C12: on one instance, whatever the interleaving of concurrent calls, the
\* category files are read at most once and components_cache is assigned at
\* most once.
C12_LoadedOnce == file_reads <= 1 /\ cache_writes <= 1

\* C13: while the solve of a call runs in its worker thread that call does
\* not hold the event loop's thread and has no result yet; it has its result
\* once the solve has ended, and returns it when it resumes.
C13_SolveOffTheLoop ==
    \A t \in Tasks :
        /\ tasks[t].pc = "solving" => loop = NoTask /\ tasks[t].result = NoResult
        /\ tasks[t].pc \in {"solved", "done"} => tasks[t].result # NoResult

\* C13 happens: while the solve of one call is still in progress, another
\* call was accepted and has run to its end.
C13_Witness ==
    \E t, u \in Tasks :
        /\ t # u
        /\ tasks[t].pc = "solving"
        /\ t \in tasks[u].began_while_solving
        /\ tasks[u].pc = "done"
        /\ tasks[u].result.status = "OPTIMAL"

\* What generate_pc_build(b, g) returns on an instance nobody else uses.
AloneResult(b, g) ==
    LET loaded == LoadedComponents(data_dir)
        valid  == ValidComponents(_filter_components_by_goal(loaded, g, b), g, b)
    IN  IF loaded = EmptyDict
        THEN [status |-> "EXCEPTION", exception |-> "ValueError"]
        ELSE IF EarlyReturn(valid) # NoResult THEN EarlyReturn(valid)
        ELSE _solve_mckp(valid, b, g, backend).result

\* C14: whatever the interleaving of the concurrent calls, each call ends with
\* the result it would have had alone with its own budget and goal.
C14_IndependentRequests ==
    \A t \in Tasks :
        tasks[t].pc = "done" =>
            tasks[t].result = AloneResult(tasks[t].budget, tasks[t].goal)

\* C14 happens: two calls with different arguments overlapped, one of them
\* served from the cache the other had stored, and they ended with different
\* bundles.
C14_Witness ==
    \E t, u \in Tasks :
        /\ tasks[t].pc = "done" /\ tasks[u].pc = "done"
        /\ t \in tasks[u].began_while_solving
        /\ tasks[u].cache_hit /\ ~tasks[t].cache_hit
        /\ tasks[t].result.status = "OPTIMAL" /\ tasks[u].result.status = "OPTIMAL"
        /\ tasks[t].result # tasks[u].result

\* The categories whose file exists and can be parsed.
Readable == {c \in Categories : data_dir[c].state = "ok"}

\* The call has its components: the load returned, or the cache was there.
HasComponents == pc \in {"filter", "score", "solve", "done"} /\ ~Raised

\* C15: the load fails exactly when no category file could be read; when
\* some file is readable the load returns, and caches, exactly the categories
\* that were read, each with the parts of its file, the missing and the
\* unreadable files being skipped.
C15_LoadSkipsBadFiles ==
    /\ pc = "done" => (Raised <=> Readable = {})
    /\ HasComponents =>
          /\ DOMAIN components = Readable
          /\ \A c \in Readable : components[c] = data_dir[c].parts
          /\ components_cache = components
    /\ Readable = {} => components_cache = EmptyDict

\* C15 happens: a load that skipped a file it could not parse, kept a category
\* whose file holds no part, and let the call go on to an OPTIMAL bundle.
C15_Witness ==
    /\ Optimal
    /\ \E c \in Categories : data_dir[c].state = "unreadable"
    /\ \E c \in DOMAIN components : components[c] = <<>>

\* The share of a budget in exact arithmetic, cut to a whole number.
Share(budget_rub, percent) == (budget_rub * percent) \div 100

\* The percentages generate_pc_build works with for a purpose.
PercentOf(purpose, slot) == purpose_allocations[purpose_key(purpose)][slot]

\* The client's call has returned its PcBuild.
Returned == client.pc = "returned"

\* C16: generate_pc_build asks for the seven lists with price_to the purpose's
\* share of the budget cut to a whole number (for games: cpu 20%, gpu 35%,
\* ram 10%), fills each slot with the first item of its list or leaves it None
\* when the list is empty, and returns budget_rub and purpose as given.
C16_PriceToIsShare ==
    /\ \A i \in 1..Len(client.calls) :
          /\ client.calls[i].slot = Slots[i]
          /\ client.calls[i].price_to = Share(client.budget, PercentOf(client.purpose, Slots[i]))
    /\ Returned =>
          /\ Len(client.calls) = Len(Slots)
          /\ client.returned[1].budget_rub = client.budget
          /\ client.returned[1].purpose = client.purpose
          /\ \A i \in 1..Len(Slots) :
                client.returned[1][Slots[i]] =
                    IF client.calls[i].response.items = <<>> THEN None
                    ELSE Some(client.calls[i].response.items[1])

\* What C16 says apart from the amounts: the order of the queries, the slots
\* and the fields returned as given.
QueriesAndSlots ==
    /\ \A i \in 1..Len(client.calls) : client.calls[i].slot = Slots[i]
    /\ Returned =>
          /\ Len(client.calls) = Len(Slots)
          /\ client.returned[1].budget_rub = client.budget
          /\ client.returned[1].purpose = client.purpose
          /\ \A i \in 1..Len(Slots) :
                client.returned[1][Slots[i]] =
                    IF client.calls[i].response.items = <<>> THEN None
                    ELSE Some(client.calls[i].response.items[1])

\* The amounts asked for are the exact share or one rouble less.
ShareOrOneLess ==
    \A i \in 1..Len(client.calls) :
        LET exact == Share(client.budget, PercentOf(client.purpose, Slots[i]))
        IN  client.calls[i].price_to \in {exact, exact - 1}

\* The calls of get_..._list that raised.
RaisedCalls == {i \in 1..Len(client.calls) : client.calls[i].response.error # None}

\* C17: when a get_..._list call raises, generate_pc_build raises the same
\* exception, returns no PcBuild, and the call that raised is the last one
\* made: no later list is asked for.
C17_ExceptionPropagates ==
    /\ \A i \in RaisedCalls :
          /\ i = Len(client.calls)
          /\ client.pc = "raised"
          /\ client.raised = Some(ApiError)
          /\ client.returned = None
    /\ client.pc = "raised" => RaisedCalls # {}
    /\ Returned => RaisedCalls = {}

\* C17 happens: some slots were filled, a later list raised, and the caller
\* got the exception and no PcBuild.
C17_Witness ==
    /\ client.pc = "raised"
    /\ Len(client.calls) = 3
    /\ client.pc_build.cpu # None
    /\ client.returned = None

\* The category of the catalog being filtered, and its parts within the
\* price range, as the filter's first loop leaves them.
TheCategory == CHOOSE c \in DOMAIN components : TRUE

InRange == InPriceRange(components[TheCategory], CategoryBudget(TheCategory, goal, budget), budget)

\* The filter has run on a catalog.
Filtered == pc = "score" /\ DOMAIN components # {}

\* The filter's output for the category: nothing when the category was dropped.
Output == DictGet(filtered_components, TheCategory, <<>>)

\* The prices of parts from the dearest down.
PricesDown(items) ==
    LET sorted == SortByPrice(items, TRUE)
    IN  [k \in 1..Len(items) |-> sorted[k].price]

\* C20: the filter's output has at most 1000 parts in every category.
C20_AtMostThousand ==
    \A c \in DOMAIN filtered_components : Len(filtered_components[c]) <= MaxFiltered

\* C20 happens: more than 1000 parts were within the price range and the
\* output has 1000 of them.
C20_Witness ==
    /\ Filtered
    /\ Len(InRange) > MaxFiltered
    /\ Len(Output) = MaxFiltered

\* C18: for a budget of 1500 or more the output holds the 100 dearest parts
\* within max_price (all of them when there are fewer), however many parts
\* the category has.
C18_HighEndSurvives ==
    (Filtered /\ budget >= 1500) =>
        Take(PricesDown(Output), HighEndCount) = Take(PricesDown(InRange), HighEndCount)

\* The 100 dearest parts survive when the cap has nothing to cut.
HighEndSurvivesUncapped ==
    (Filtered /\ budget >= 1500 /\ Len(HighEndAndBalanced(InRange)) <= MaxFiltered) =>
        Take(PricesDown(Output), HighEndCount) = Take(PricesDown(InRange), HighEndCount)

\* C19: for a budget of 1500 or more the balanced set, stepped through the
\* parts below the 100 dearest, has at most 900 items, so the high-end and the
\* balanced sets together have at most 1000 and the cap removes nothing.
C19_BalancedAtMost900 ==
    (Filtered /\ budget >= 1500 /\ InRange # <<>>) =>
        LET mixed == HighEndAndBalanced(InRange)
        IN  /\ Len(Drop(mixed, HighEndCount)) <= BalancedCount
            /\ Len(mixed) <= MaxFiltered
            /\ CapFiltered(mixed) = mixed

\* The goal's weight of a category in hundredths: the universal profile for
\* an unknown goal, a tenth for a category the profile does not name.
BudgetWeight(c) ==
    LET profile == IF goal \in DOMAIN BUDGET_ALLOCATIONS THEN BUDGET_ALLOCATIONS[goal]
                   ELSE BUDGET_ALLOCATIONS["universal"]
    IN  IF c \in DOMAIN profile THEN profile[c] ELSE 10

\* Twice the factor of the ceiling: 3, 2.5 or 2.
TwiceFactor == IF budget >= 2000 THEN 6 ELSE IF budget >= 1000 THEN 5 ELSE 4

\* p <= weight x budget x factor, with p in dollars and the weight in hundredths.
WithinCeiling(item, c) == item.price * 200 <= BudgetWeight(c) * budget * TwiceFactor

\* How many times a part stands in a list.
Occurrences(items, item) == Cardinality({i \in 1..Len(items) : items[i] = item})

\* C21: every part of a category's filter output has a price p with
\* 0 < p <= max_price, max_price being the goal's weight of the category times
\* the budget times 3 (budget >= 2000), 2.5 (1000 <= budget < 2000) or 2; and
\* the output is a sub-collection of the loaded parts: each part of the output
\* is a loaded part of that category and stands there no more often.
C21_OutputWithinCeiling ==
    \A c \in DOMAIN filtered_components :
        /\ c \in DOMAIN components
        /\ \A i \in 1..Len(filtered_components[c]) :
              LET item == filtered_components[c][i]
              IN  /\ Priced(item)
                  /\ WithinCeiling(item, c)
                  /\ Occurrences(filtered_components[c], item) <= Occurrences(components[c], item)

\* C21 happens: the filter has run with the 2.5 factor, kept a part and
\* dropped a priced part of the same category for being above the ceiling.
C21_Witness ==
    /\ pc = "score"
    /\ TwiceFactor = 5
    /\ \E c \in DOMAIN filtered_components : \E i \in 1..Len(components[c]) :
          /\ Priced(components[c][i])
          /\ ~WithinCeiling(components[c][i], c)

\* The parts of a category that went through the scoring loop.
ScoredParts(c) ==
    IF pc \in {"solve", "done"} /\ c \in DOMAIN filtered_components
    THEN {filtered_components[c][i] : i \in 1..Len(filtered_components[c])}
    ELSE {}

\* The form-factor score as C22 gives it: Micro ATX 15, ATX 20, Mini ITX 10.
StatedFormFactorScore(form_factor) ==
    IF StrIn(MicroATX, form_factor) THEN 15
    ELSE IF StrIn(ATX, form_factor) THEN 20
    ELSE IF StrIn(MiniITX, form_factor) THEN 10
    ELSE 0

\* C22: the base utility of a motherboard is 50 plus 20 for ATX, 15 for
\* Micro ATX, 10 for Mini ITX and 0 otherwise, so a Micro ATX board has 65 and
\* stands strictly below an ATX board with 70 (utilities in hundredths).
C22_MicroATXBelowATX ==
    \A part \in ScoredParts("motherboard") :
        LET utility == _calculate_base_utility(part, "motherboard")[1]
        IN  /\ utility = (50 + StatedFormFactorScore(DictGet(part, "form_factor", <<>>))) * 100
            /\ DictGet(part, "form_factor", <<>>) = MicroATX =>
                  /\ utility = 6500
                  /\ utility < _calculate_base_utility([part EXCEPT !.form_factor = ATX], "motherboard")[1]

\* The storage type score as C23 gives it: 30 when the type names nvme, 20
\* when it names ssd.
StatedStorageTypeScore(storage_type) ==
    IF StrIn(nvme, Lower(storage_type)) THEN 30
    ELSE IF StrIn(ssd, Lower(storage_type)) THEN 20
    ELSE 0

\* C23: the base utility of a storage part is 50 + capacity / 100 plus 30
\* when its type names nvme, 20 when it names ssd and 0 otherwise, so every
\* part whose type contains nvme, "NVMe SSD" included, gets the 30 points
\* (utilities in hundredths).
C23_NvmeScoresThirty ==
    \A part \in ScoredParts("storage") :
        _calculate_base_utility(part, "storage")[1] =
            5000 + DictGet(part, "capacity", 500)
                 + StatedStorageTypeScore(DictGet(part, "type", <<>>)) * 100

\* Every branch of the two scores but the shadowed ones is as stated.
ScoresAsStatedUnlessShadowed ==
    /\ \A part \in ScoredParts("motherboard") :
          StrIn(MicroATX, DictGet(part, "form_factor", <<>>))
          \/ _calculate_base_utility(part, "motherboard")[1] =
                (50 + StatedFormFactorScore(DictGet(part, "form_factor", <<>>))) * 100
    /\ \A part \in ScoredParts("storage") :
          (StrIn(nvme, Lower(DictGet(part, "type", <<>>))) /\ StrIn(ssd, Lower(DictGet(part, "type", <<>>))))
          \/ _calculate_base_utility(part, "storage")[1] =
                5000 + DictGet(part, "capacity", 500)
                     + StatedStorageTypeScore(DictGet(part, "type", <<>>)) * 100

\* C24: every generate_pc_build call ends, and a solve that does not finish
\* ends as an ERROR result brought about by a timeout.
C24_EveryCallCompletes ==
    /\ (pc # "idle") ~> (pc = "done")
    /\ (pc = "solve" /\ backend = "stalled") ~> (pc = "done" /\ result.status = "ERROR")

\* Every call whose solve finishes ends.
CompletesWhenSolveEnds == (pc # "idle" /\ backend # "stalled") ~> (pc = "done")

(***************************************************************************)
(* The second attempt of the allocation engine                             *)
(***************************************************************************)

\* The second attempt as _solve_mckp would make it on the candidates of the
\* call: _solve_mckp_with_min_spend(valid_components, budget, goal, budget * 0.8).
SecondAttempt ==
    _solve_mckp_with_min_spend(valid_components, budget, goal, budget * 8, backend)

C27_FloorIsHardAndNoSecondAttempt ==
    /\ (Optimal /\ budget >= 1500) => ReachesFloor(result.total_price, budget)
    /\ Len(solves) <= 1
    /\ \A k \in 1..Len(solves) : solves[k] = min_spend(budget)

\* C27 happens: an OPTIMAL result for budget >= 1500 that spends less than
\* the whole budget, on candidates among which a selection under the floor
\* fits the budget.
C27_Witness ==
    /\ Optimal
    /\ budget >= 1500
    /\ result.total_price < budget
    /\ \E s \in FullSelections :
          ~ReachesFloor(SelectionPrice(valid_components, s), budget)

(***************************************************************************)
(* The catalog after the calls                                             *)
(***************************************************************************)

\* The catalog as _load_components_sync stored it.
CatalogAsLoaded == CacheAfterLoad(LoadedComponents(data_dir))

\* C26: at every point of every sequence of calls the cache, once filled,
\* holds what was loaded: the same categories, in every category the same
\* parts in the same order, every part with the same fields and values (no
\* utility among them).
C26_CatalogUnchanged ==
    components_cache # EmptyDict =>
        /\ components_cache = CatalogAsLoaded
        /\ \A c \in DOMAIN components_cache :
              \A i \in 1..Len(components_cache[c]) :
                 "utility" \notin DOMAIN components_cache[c][i]

\* C26 happens: a second call has ended OPTIMAL on the cached catalog, after
\* a filter that put the candidates of a category in another order than the
\* cached list has and a scoring that gave them a utility.
C26_Witness ==
    /\ previous.status = "DONE"
    /\ Optimal
    /\ components_cache = CatalogAsLoaded
    /\ \E c \in DOMAIN valid_components :
          /\ Len(filtered_components[c]) = Len(components_cache[c])
          /\ filtered_components[c] # components_cache[c]
          /\ "utility" \in DOMAIN valid_components[c][1]

(***************************************************************************)
(* The cheapest part through the filter                                    *)
(***************************************************************************)

\* The lowest price among the parts of the category within the price range.
CheapestInRange == SortByPrice(InRange, FALSE)[1].price

\* The filter's output for the category has a part of that price.
HasPrice(price) == \E k \in 1..Len(Output) : Output[k].price = price

\* C30: when the category has a part with 0 < price <= max_price, the filter's
\* output has the category, and in it a part of the lowest price among those
\* parts.
C30_CheapestSurvives ==
    (Filtered /\ InRange # <<>>) =>
        /\ TheCategory \in DOMAIN filtered_components
        /\ LET cheapest == CheapestInRange IN HasPrice(cheapest)

\* C30 happens: for a budget of 1500 or more, more than 1000 parts within the
\* range, the cheapest of them not at the head of the catalog; the output,
\* subsampled and cut, has fewer parts and the cheapest among them.
C30_Witness ==
    /\ Filtered
    /\ budget >= 1500
    /\ Len(InRange) > MaxFiltered
    /\ Len(Output) < Len(InRange)
    /\ LET cheapest == CheapestInRange
       IN  components[TheCategory][1].price > cheapest /\ HasPrice(cheapest)

(***************************************************************************)
(* The buttons under a build                                               *)
(***************************************************************************)

\* The last update was a press of button d.
Pressed(d) == chat.last.data = d

\* C28: a press of 'restart' or of 'save_build', the buttons shown under the
\* outcome of a build attempt, is taken by a handler of the dispatcher; after
\* a press of 'restart' the stored data is empty and the state is the price
\* selection.
C28_ResultButtonsHandled ==
    /\ (Pressed(restart) \/ Pressed(save_build)) => chat.last.handler # "UNHANDLED"
    /\ Pressed(restart) => (chat.data = EmptyDict /\ chat.state = PcAssemblerFSM_price)

\* The outcome of the most recent goal selection.
LatestSelection == chat.selections[Len(chat.selections)]

\* Every exported file holds the build of the goal selection that was the
\* most recent one when it was written, and that selection was OPTIMAL.
ExportsLatestSelection ==
    \A k \in 1..Len(chat.exported) :
        /\ chat.exported[k].after >= 1
        /\ chat.selections[chat.exported[k].after].status = "OPTIMAL"
        /\ chat.exported[k].build = chat.selections[chat.exported[k].after]

RestartClears ==
    Pressed(restart) =>
        /\ chat.last.handler = "restart_configuration"
        /\ chat.data = EmptyDict
        /\ chat.state = PcAssemblerFSM_price

====
